---- MODULE Spec2Model ----
(***************************************************************************)
(* Storage pool / volume manager of zos-rs.                                *)
(*                                                                         *)
(* The kernel and the disks (mount table, btrfs subvolumes, quota limits,  *)
(* disk image files) are state that outlives the manager process; the      *)
(* StorageManager holds two vectors of Pool values over them.  Every       *)
(* external command (mount, umount, btrfs ...) can fail: the outcome of    *)
(* each is an input of the action that runs it.                            *)
(***************************************************************************)
EXTENDS Integers, Sequences, FiniteSets, TLC

(* ------------------------------ bounds -------------------------------- *)
\* number of block devices the device manager lists
NumDevices == 3
\* width of Unit (u64 in the code), scaled down
UnitBits == 4
\* largest ordinary request size; a request close to the top of Unit is
\* made as well
MaxReq == 2
\* smallest device size; devices are MinDevSize or MinDevSize + 1 units big
MinDevSize == 2

UnitMod == 2 ^ UnitBits
UnitMax == UnitMod - 1

Devices == 1 .. NumDevices
\* Device::size() in the inventory the specifications start from
DeviceSize(d) == MinDevSize + (d % 2)
\* a request that only fits a pool if the sum wraps
HugeReq == UnitMax - 1
ReqSizes == (0 .. MaxReq) \cup {HugeReq}
\* cargo profiles: overflow-checks on (debug) or off (release)
Builds == {"debug", "release"}

VDISKS_VOLUME == "vdisks"
ZDB_VOLUME == "zdb"
VolNames == {"v1", "v2", VDISKS_VOLUME, ZDB_VOLUME}
DiskNames == {"d1"}

\* a volume or a disk file that does not exist
Absent == -1
\* a volume without a quota limit (max_rfer = none)
NoLimit == 0

VARIABLES
    build,      \* "debug" (overflow panics) or "release" (overflow wraps)
    devtype,    \* DeviceType of every device, as get_type finds it
    devsize,    \* Device::size() of every device
    mounted,    \* kernel mount table: device d is mounted at /mnt/<label>
    vols,       \* btrfs subvolumes of every device: name -> quota limit
    disks,      \* files under <pool>/vdisks: name -> length
    cursor,     \* StorageManager::initialize: next device of the loop
    ssds,       \* StorageManager.ssds
    hdds,       \* StorageManager.hdds
    ssd_size,   \* StorageManager.ssd_size
    hdd_size,   \* StorageManager.hdd_size
    allocated,  \* devices that device_allocate has returned so far
    table,      \* /proc/mounts below the flist root: a sequence of Mount
    dirs,       \* the directories that exist under ro/ and mountpoint/
    cache,      \* the files of the flist/ directory: name -> content
    alive,      \* the g8ufs processes that are running
    inventory,  \* what every device reports: its filesystem and its label
    store,      \* the device-type cache: whether it is there, and its files
    probes,     \* the seektime runs of every device: result stored, or lost
    waiting,    \* a wait_mountpoint loop in progress, or NoWait
    inflight,   \* a suspended future (into_up, mount, resolve, stop_wait), or NoCall
    last        \* the last call: its inputs and what it returned

vars == <<build, devtype, devsize, mounted, vols, disks, cursor, ssds, hdds,
          ssd_size, hdd_size, allocated, table, dirs, cache, alive,
          inventory, store, probes, waiting, inflight, last>>

totals == <<ssd_size, hdd_size>>

\* the state of the storage manager and of the flist daemon
host == <<inventory, store, probes, waiting>>
storage == <<build, devtype, devsize, mounted, vols, disks, cursor, ssds, hdds,
             ssd_size, hdd_size, allocated, inflight, host>>
flist == <<table, dirs, cache, alive>>

\* no wait_mountpoint in progress
NoWait == [path |-> <<>>, duration |-> 0, polls |-> 0]
\* the devices as lsblk reports them once the pools exist, an empty type
\* cache, no probe run yet
HostIdle ==
    /\ inventory = [d \in Devices |-> [filesystem |-> "btrfs", label |-> TRUE]]
    /\ store = [available |-> TRUE, files |-> [d \in Devices |-> "none"]]
    /\ probes = [d \in Devices |-> [stored |-> 0, lost |-> 0]]
    /\ waiting = NoWait

kernel == <<mounted, vols, disks>>

NoCall == [dir |-> "none", idx |-> 0]

NoVols == [n \in VolNames |-> Absent]
NoDisks == [n \in DiskNames |-> Absent]

(* ------------------------------ helpers ------------------------------- *)
Min(S) == CHOOSE x \in S : \A y \in S : x <= y

RECURSIVE SumOver(_, _)
SumOver(f, S) ==
    IF S = {} THEN 0
    ELSE LET x == CHOOSE y \in S : TRUE
         IN f[x] + SumOver(f, S \ {x})

\* Pool<U, D>: Up(U) | Down(D) | Transit; U and D both own the device
Pool(d, s) == [device |-> d, state |-> s]

Indices(pools) == 1 .. Len(pools)
UpIdx(pools) == {i \in Indices(pools) : pools[i].state = "Up"}
DownIdx(pools) == {i \in Indices(pools) : pools[i].state = "Down"}
DevicesOf(pools) == {pools[i].device : i \in Indices(pools)}

(* ------------------------------ btrfs pool ---------------------------- *)
\* BtrfsDownPool::up, first half: mount the device on /mnt/<label>.  oc
\* names the command that fails, if any.  The kernel refuses to mount a
\* filesystem on a mount point it is already mounted on (EBUSY).
BtrfsMount(isMounted, oc) ==
    IF oc = "mount" \/ isMounted
    THEN [ok |-> FALSE, mounted |-> isMounted]
    ELSE [ok |-> TRUE, mounted |-> TRUE]

\* BtrfsDownPool::up, second half: btrfs quota enable; nothing is
\* unmounted when it fails
BtrfsQuota(oc) == oc # "quota"

\* BtrfsDownPool::up run to completion
BtrfsUp(isMounted, oc) ==
    LET m == BtrfsMount(isMounted, oc)
    IN IF ~m.ok THEN m
       ELSE [ok |-> BtrfsQuota(oc), mounted |-> m.mounted]

\* BtrfsUpPool::down: umount the pool path.
BtrfsDown(isMounted, oc) ==
    IF oc = "umount" \/ ~isMounted
    THEN [ok |-> FALSE, mounted |-> isMounted]
    ELSE [ok |-> TRUE, mounted |-> FALSE]

\* a transition that does not put the pool back when it fails
IntoUpResultStuck(pool, r) ==
    IF r.ok THEN Pool(pool.device, "Up") ELSE Pool(pool.device, "Transit")

\* Pool::into_up after down.up() returned r: Up(up) on Ok, Down(pool) with
\* the pool the error hands back on Err
IntoUpResult(pool, r) ==
    IF r.ok THEN Pool(pool.device, "Up") ELSE Pool(pool.device, "Down")

\* Pool::into_down after up.down() returned r
IntoDownResult(pool, r) ==
    IF r.ok THEN Pool(pool.device, "Down") ELSE Pool(pool.device, "Up")

\* Pool::into_up run to completion
IntoUp(pool, isMounted, oc) ==
    IF pool.state = "Up"
    THEN [ok |-> TRUE, pool |-> pool, mounted |-> isMounted]
    ELSE LET r == BtrfsUp(isMounted, oc)
         IN [ok |-> r.ok, pool |-> IntoUpResult(pool, r), mounted |-> r.mounted]

\* Pool::into_down run to completion
IntoDown(pool, isMounted, oc) ==
    IF pool.state = "Down"
    THEN [ok |-> TRUE, pool |-> pool, mounted |-> isMounted]
    ELSE LET r == BtrfsDown(isMounted, oc)
         IN [ok |-> r.ok, pool |-> IntoDownResult(pool, r), mounted |-> r.mounted]

\* Volume::usage: the quota limit, or the size of the files when no limit
\* is set (only the vdisks volume holds files here)
VolumeUsage(vs, ds, n) ==
    IF vs[n] > NoLimit THEN vs[n]
    ELSE IF n = VDISKS_VOLUME
    THEN SumOver([k \in DiskNames |-> IF ds[k] = Absent THEN 0 ELSE ds[k]], DiskNames)
    ELSE 0

\* the sum UpPool::usage() adds up, before it is cut to the width of Unit
RawUsed(vs, ds) ==
    SumOver([n \in VolNames |-> IF vs[n] = Absent THEN 0 ELSE VolumeUsage(vs, ds, n)],
            VolNames)

\* UpPool::usage().used as a release build returns it
PoolUsed(vs, ds) == RawUsed(vs, ds) % UnitMod

\* the comparison the comment above enough_for describes
EnoughForLoose(used, total, size) == ((used + size) % UnitMod) <= total

\* Usage::enough_for on u64 (a release build wraps)
EnoughFor(used, total, size) == ((used + size) % UnitMod) < total

(* ------------------------------ faults -------------------------------- *)
\* the external command that fails during one call, if any: kind names
\* the command, dev the device whose pool it is run on
NoFault == [kind |-> "none", dev |-> 0]
FaultsOn(kinds, devs) == [kind : kinds, dev : devs]
Hits(f, kind, d) == f.kind = kind /\ f.dev = d

UpOutcomes == {"ok", "mount", "quota"}

(* ------------------------------ manager ------------------------------- *)
\* what a call returns and the state it leaves
Outcome(res, dev, sel, failed, pools, mnt, vs, ds) ==
    [res |-> res, dev |-> dev, sel |-> sel, failed |-> failed,
     pools |-> pools, mounted |-> mnt, vols |-> vs, disks |-> ds]

\* UpPool::volume(name) on the pool of device d: "ok", "not_found" or "error"
PoolVolume(vs, d, name, f) ==
    IF Hits(f, "list", d) THEN "error"
    ELSE IF vs[d][name] = Absent THEN "not_found"
    ELSE "ok"

\* a lookup that finds nothing
VolumeLookupBlind(pools, vs, name, f) == [res |-> "not_found", idx |-> 0]

\* StorageManager::volume_lookup: the first Up pool that has the volume
VolumeLookup(pools, vs, name, f) ==
    LET stops == {i \in UpIdx(pools) : PoolVolume(vs, pools[i].device, name, f) # "not_found"}
    IN IF stops = {} THEN [res |-> "not_found", idx |-> 0]
       ELSE LET i == Min(stops)
            IN IF PoolVolume(vs, pools[i].device, name, f) = "error"
               THEN [res |-> "error", idx |-> 0]
               ELSE [res |-> "ok", idx |-> i]

\* what usage() and enough_for() make of the Up pool at index i
UsageCheck(pools, vs, ds, sizes, i, size, f, bld) ==
    LET d == pools[i].device
        raw == RawUsed(vs[d], ds[d])
    IN IF Hits(f, "usage", d) THEN "error"
       ELSE IF bld = "debug" /\ (raw > UnitMax \/ raw + size > UnitMax)
       THEN "panic"
       ELSE IF EnoughFor(PoolUsed(vs[d], ds[d]), sizes[d], size) THEN "enough"
       ELSE "full"

\* StorageManager::allocate, second loop: bring a Down pool up
AllocateDown(pools, mnt, sizes, size, upOc) ==
    LET cand == {i \in DownIdx(pools) : ~(sizes[pools[i].device] < size)}
        good == {i \in cand : IntoUp(pools[i], mnt[pools[i].device], upOc[pools[i].device]).ok}
        tried == IF good = {} THEN cand ELSE {i \in cand : i <= Min(good)}
        after(i) == IntoUp(pools[i], mnt[pools[i].device], upOc[pools[i].device])
        pools2 == [i \in Indices(pools) |-> IF i \in tried THEN after(i).pool ELSE pools[i]]
        mnt2 == [d \in Devices |->
                    IF \E i \in tried : pools[i].device = d
                    THEN after(CHOOSE i \in tried : pools[i].device = d).mounted
                    ELSE mnt[d]]
        failed == {pools[i].device : i \in tried \ good}
    IN [res |-> IF good = {} THEN "no_space" ELSE "ok",
        idx |-> IF good = {} THEN 0 ELSE Min(good),
        sel |-> IF good = {} THEN "none" ELSE "down",
        failed |-> failed, pools |-> pools2, mounted |-> mnt2]

\* an allocate without its first loop
AllocateDownFirst(pools, mnt, vs, ds, sizes, size, upOc, f, bld) ==
    AllocateDown(pools, mnt, sizes, size, upOc)

\* StorageManager::allocate
Allocate(pools, mnt, vs, ds, sizes, size, upOc, f, bld) ==
    LET stops == {i \in UpIdx(pools) : UsageCheck(pools, vs, ds, sizes, i, size, f, bld) # "full"}
        first == IF stops = {} THEN "full"
                 ELSE UsageCheck(pools, vs, ds, sizes, Min(stops), size, f, bld)
    IN IF first \in {"error", "panic"}
       THEN [res |-> first, idx |-> 0, sel |-> "none", failed |-> {},
             pools |-> pools, mounted |-> mnt]
       ELSE IF first = "enough"
       THEN [res |-> "ok", idx |-> Min(stops), sel |-> "up", failed |-> {},
             pools |-> pools, mounted |-> mnt]
       ELSE AllocateDown(pools, mnt, sizes, size, upOc)

\* BtrfsUpPool::volume_create on device d: btrfs subvolume create, then
\* btrfs subvolume show for the id; the subvolume stays when show fails
BtrfsVolumeCreate(vs, d, name, f) ==
    IF f.kind = "create" \/ vs[d][name] # Absent
    THEN [ok |-> FALSE, vols |-> vs]
    ELSE [ok |-> f.kind # "show", vols |-> [vs EXCEPT ![d][name] = NoLimit]]

\* Volume::limit(Some(size)): btrfs qgroup limit
VolumeLimit(vs, d, name, size, f) ==
    IF f.kind = "limit"
    THEN [ok |-> FALSE, vols |-> vs]
    ELSE [ok |-> TRUE, vols |-> [vs EXCEPT ![d][name] = size]]

\* StorageManager::volume_create once the size is accepted: lookup,
\* allocate, create, limit
VolumeCreateSized(pools, mnt, vs, ds, sizes, name, size, upOc, f, bld) ==
    LET found == VolumeLookup(pools, vs, name, f)
    IN IF found.res = "ok"
       THEN Outcome("ok", pools[found.idx].device, "existing", {}, pools, mnt, vs, ds)
       ELSE IF found.res = "error"
       THEN Outcome("error", 0, "none", {}, pools, mnt, vs, ds)
       ELSE LET a == Allocate(pools, mnt, vs, ds, sizes, size, upOc, f, bld)
            IN IF a.res # "ok"
               THEN Outcome(a.res, 0, "none", a.failed, a.pools, a.mounted, vs, ds)
               ELSE LET d == a.pools[a.idx].device
                        c == BtrfsVolumeCreate(vs, d, name, f)
                        l == VolumeLimit(c.vols, d, name, size, f)
                    IN IF ~c.ok
                       THEN Outcome("error", d, a.sel, a.failed,
                                    a.pools, a.mounted, c.vols, ds)
                       ELSE Outcome(IF l.ok THEN "ok" ELSE "error", d, a.sel,
                                    a.failed, a.pools, a.mounted, l.vols, ds)

\* a volume_create that looks the name up before it checks the size
VolumeCreateLookupFirst(pools, mnt, vs, ds, sizes, name, size, upOc, f, bld) ==
    IF size = 0 /\ VolumeLookup(pools, vs, name, f).res = "not_found"
    THEN Outcome("invalid_size", 0, "none", {}, pools, mnt, vs, ds)
    ELSE VolumeCreateSized(pools, mnt, vs, ds, sizes, name, size, upOc, f, bld)

\* StorageManager::volume_create
VolumeCreateCall(pools, mnt, vs, ds, sizes, name, size, upOc, f, bld) ==
    IF size = 0
    THEN Outcome("invalid_size", 0, "none", {}, pools, mnt, vs, ds)
    ELSE VolumeCreateSized(pools, mnt, vs, ds, sizes, name, size, upOc, f, bld)

\* BtrfsUpPool::volume_delete on device d: subvolume show for the id,
\* subvolume delete, qgroup destroy.  show fails on a path that is no
\* subvolume; the pool never answers VolumeNotFound.
BtrfsVolumeDelete(vs, d, name, f) ==
    IF vs[d][name] = Absent \/ Hits(f, "show", d) \/ Hits(f, "delete", d)
    THEN [ok |-> FALSE, gone |-> FALSE]
    ELSE [ok |-> ~Hits(f, "destroy", d), gone |-> TRUE]

\* StorageManager::volume_delete: every Up pool in turn, until one fails
VolumeDeleteCall(pools, mnt, vs, ds, name, f) ==
    LET del(i) == BtrfsVolumeDelete(vs, pools[i].device, name, f)
        errs == {i \in UpIdx(pools) : ~del(i).ok}
        seen == IF errs = {} THEN UpIdx(pools)
                ELSE {i \in UpIdx(pools) : i <= Min(errs)}
        gone == {pools[i].device : i \in {j \in seen : del(j).gone}}
        vs2 == [d \in Devices |-> IF d \in gone THEN [vs[d] EXCEPT ![name] = Absent]
                                  ELSE vs[d]]
        ds2 == [d \in Devices |-> IF d \in gone /\ name = VDISKS_VOLUME THEN NoDisks
                                  ELSE ds[d]]
    IN Outcome(IF errs = {} THEN "ok" ELSE "error", 0, "none", {}, pools, mnt, vs2, ds2)

\* StorageManager::disk_lookup: the first Up pool whose vdisks volume
\* holds the file; a pool whose volume cannot be read is passed over
DiskLookup(pools, vs, ds, name, f) ==
    LET has == {i \in UpIdx(pools) :
                    /\ PoolVolume(vs, pools[i].device, VDISKS_VOLUME, f) = "ok"
                    /\ ds[pools[i].device][name] # Absent}
    IN IF has = {} THEN [res |-> "not_found", idx |-> 0]
       ELSE [res |-> "ok", idx |-> Min(has)]

\* a mkdisk that creates the file and allocates nothing
MkdiskSparse(len, size, f) ==
    IF f.kind = "open" THEN [ok |-> FALSE, len |-> len]
    ELSE [ok |-> f.kind # "fallocate", len |-> IF len = Absent THEN 0 ELSE len]

\* mkdisk: open(create), set NOCOW, fallocate(0, size as i64).  The file
\* exists from open on; fallocate rejects a length that is not positive.
Mkdisk(len, size, f) ==
    IF f.kind = "open" THEN [ok |-> FALSE, len |-> len]
    ELSE LET made == IF len = Absent THEN 0 ELSE len
         IN IF f.kind = "fallocate" \/ size = 0 \/ size >= UnitMod \div 2
            THEN [ok |-> FALSE, len |-> made]
            ELSE [ok |-> TRUE, len |-> IF size > made THEN size ELSE made]

\* StorageManager::disk_create
DiskCreateCall(pools, mnt, vs, ds, sizes, name, size, upOc, f, bld) ==
    LET found == DiskLookup(pools, vs, ds, name, f)
    IN IF found.res = "ok"
       THEN Outcome("ok", pools[found.idx].device, "existing", {}, pools, mnt, vs, ds)
       ELSE LET a == Allocate(pools, mnt, vs, ds, sizes, size, upOc, f, bld)
            IN IF a.res # "ok"
               THEN Outcome(a.res, 0, "none", a.failed, a.pools, a.mounted, vs, ds)
               ELSE LET d == a.pools[a.idx].device
                        pv == PoolVolume(vs, d, VDISKS_VOLUME, f)
                        c == IF pv = "not_found"
                             THEN BtrfsVolumeCreate(vs, d, VDISKS_VOLUME, f)
                             ELSE [ok |-> pv = "ok", vols |-> vs]
                        m == Mkdisk(ds[d][name], size, f)
                    IN IF ~c.ok
                       THEN Outcome("error", d, a.sel, a.failed,
                                    a.pools, a.mounted, c.vols, ds)
                       ELSE Outcome(IF m.ok THEN "ok" ELSE "error", d, a.sel, a.failed,
                                    a.pools, a.mounted, c.vols,
                                    [ds EXCEPT ![d][name] = m.len])

\* a validation that leaves every pool it could bring up Up
ValidateKeepsUp(pool, isMounted, vs, f) ==
    LET u == IntoUp(pool, isMounted, IF f.kind \in {"mount", "quota"} THEN f.kind ELSE "ok")
    IN [ok |-> u.ok /\ f.kind \notin {"usage", "list"}, pool |-> u.pool, mounted |-> u.mounted]

\* a validation that brings every pool down again, volumes or not
ValidateBringsDown(pool, isMounted, vs, f) ==
    LET u == IntoUp(pool, isMounted, IF f.kind \in {"mount", "quota"} THEN f.kind ELSE "ok")
        w == IntoDown(u.pool, u.mounted, f.kind)
    IN IF ~u.ok \/ f.kind \in {"usage", "list"}
       THEN [ok |-> FALSE, pool |-> u.pool, mounted |-> u.mounted]
       ELSE [ok |-> w.ok, pool |-> w.pool, mounted |-> w.mounted]

\* StorageManager::validate: force the pool up, read its usage and its
\* volumes, bring it down again when it holds none
Validate(pool, isMounted, vs, f) ==
    LET d == pool.device
        u == IntoUp(pool, isMounted, IF f.kind \in {"mount", "quota"} THEN f.kind ELSE "ok")
        w == IntoDown(u.pool, u.mounted, f.kind)
    IN IF ~u.ok \/ f.kind \in {"usage", "list"}
       THEN [ok |-> FALSE, pool |-> u.pool, mounted |-> u.mounted]
       ELSE IF vs[d] = NoVols
       THEN [ok |-> w.ok, pool |-> w.pool, mounted |-> w.mounted]
       ELSE [ok |-> TRUE, pool |-> u.pool, mounted |-> u.mounted]

\* BtrfsPool::with: Up when the device is mounted, Down otherwise
PoolGet(d, isMounted) == Pool(d, IF isMounted THEN "Up" ELSE "Down")

(* ------------------------------ actions ------------------------------- *)
\* no call has returned yet
NoneYet == [op |-> "none", name |-> "", size |-> 0, res |-> "ok", dev |-> 0,
            sel |-> "none", faulted |-> FALSE, upfault |-> FALSE, failed |-> {}]

Ready == cursor > NumDevices /\ inflight = NoCall

AllOk == [d \in Devices |-> "ok"]

\* the record of a call: faulted when an external command was made to
\* fail, upfault when an up() was made to fail, failed the devices whose
\* into_up was tried and failed
Call(op, name, size, upOc, f, r) ==
    [op |-> op, name |-> name, size |-> size, res |-> r.res, dev |-> r.dev,
     sel |-> r.sel, faulted |-> f # NoFault, upfault |-> upOc # AllOk,
     failed |-> r.failed]

\* the record of a call on one pool
PoolCall(op, d, res, failed) ==
    [op |-> op, name |-> "", size |-> 0, res |-> res, dev |-> d,
     sel |-> "none", faulted |-> FALSE, upfault |-> FALSE, failed |-> failed]

\* a loop that gives up at the first device whose validation fails
InitDeviceFatal(f) ==
    /\ cursor <= NumDevices
    /\ inflight = NoCall
    /\ LET d == cursor
           typ == devtype[d]
           v == Validate(PoolGet(d, mounted[d]), mounted[d], vols, f)
           early == f.kind \in {"type", "get"}
           kept == ~early /\ v.ok
       IN /\ cursor' = IF early \/ v.ok THEN cursor + 1 ELSE NumDevices + 1
          /\ mounted' = IF early THEN mounted ELSE [mounted EXCEPT ![d] = v.mounted]
          /\ ssds' = IF kept /\ typ = "SSD" THEN Append(ssds, v.pool) ELSE ssds
          /\ hdds' = IF kept /\ typ = "HDD" THEN Append(hdds, v.pool) ELSE hdds
          /\ ssd_size' = IF kept /\ typ = "SSD" THEN ssd_size + devsize[d] ELSE ssd_size
          /\ hdd_size' = IF kept /\ typ = "HDD" THEN hdd_size + devsize[d] ELSE hdd_size
          /\ last' = [PoolCall("init", d, IF kept THEN "ok" ELSE IF early THEN "skipped" ELSE "fatal", {})
                          EXCEPT !.faulted = f # NoFault]
    /\ UNCHANGED <<build, devtype, devsize, vols, disks, allocated, inflight, flist, host>>

\* one turn of the loop of StorageManager::initialize
InitDevice(f) ==
    /\ cursor <= NumDevices
    /\ inflight = NoCall
    /\ LET d == cursor
           typ == devtype[d]
           v == Validate(PoolGet(d, mounted[d]), mounted[d], vols, f)
           kept == f.kind \notin {"type", "get"} /\ v.ok
       IN /\ cursor' = cursor + 1
          /\ mounted' = IF f.kind \in {"type", "get"} THEN mounted
                        ELSE [mounted EXCEPT ![d] = v.mounted]
          /\ ssds' = IF kept /\ typ = "SSD" THEN Append(ssds, v.pool) ELSE ssds
          /\ hdds' = IF kept /\ typ = "HDD" THEN Append(hdds, v.pool) ELSE hdds
          /\ ssd_size' = IF kept /\ typ = "SSD" THEN ssd_size + devsize[d] ELSE ssd_size
          /\ hdd_size' = IF kept /\ typ = "HDD" THEN hdd_size + devsize[d] ELSE hdd_size
          /\ last' = [PoolCall("init", d, IF kept THEN "ok" ELSE "skipped", {})
                          EXCEPT !.faulted = f # NoFault]
    /\ UNCHANGED <<build, devtype, devsize, vols, disks, allocated, inflight, flist, host>>

\* the manager process ends and is started again: the kernel keeps its state
Restart ==
    /\ Ready
    /\ cursor' = 1
    /\ ssds' = <<>>
    /\ hdds' = <<>>
    /\ ssd_size' = 0
    /\ hdd_size' = 0
    /\ last' = NoneYet
    /\ UNCHANGED <<build, devtype, devsize, mounted, vols, disks, allocated, inflight, flist, host>>

Apply(op, name, size, upOc, f, r) ==
    /\ ssds' = r.pools
    /\ mounted' = r.mounted
    /\ vols' = r.vols
    /\ disks' = r.disks
    /\ last' = Call(op, name, size, upOc, f, r)
    /\ UNCHANGED <<build, devtype, devsize, cursor, hdds, totals, allocated, inflight, flist, host>>

\* the outcome of up() for every Down pool the second loop of allocate may
\* try for a request of this size: the first k candidates fail, all at
\* the mount or all at the quota command, the others come up
UpOraclesFor(size) ==
    LET cand == {i \in DownIdx(ssds) : size > 0 /\ devsize[ssds[i].device] >= size}
        lead(k) == {ssds[i].device : i \in {j \in cand : Cardinality({h \in cand : h <= j}) <= k}}
    IN {[d \in Devices |-> IF d \in lead(k) THEN kind ELSE "ok"] :
            k \in 0 .. Cardinality(cand), kind \in UpOutcomes \ {"ok"}}

VolumeCreate(name, size, upOc, f) ==
    /\ Ready
    /\ Apply("volume_create", name, size, upOc, f,
             VolumeCreateCall(ssds, mounted, vols, disks, devsize, name, size, upOc, f, build))

VolumeDelete(name, f) ==
    /\ Ready
    /\ Apply("volume_delete", name, 0, AllOk, f,
             VolumeDeleteCall(ssds, mounted, vols, disks, name, f))

DiskCreate(name, size, upOc, f) ==
    /\ Ready
    /\ Apply("disk_create", name, size, upOc, f,
             DiskCreateCall(ssds, mounted, vols, disks, devsize, name, size, upOc, f, build))

\* the commands a call runs on the pools that are Up
UpDevices == {ssds[i].device : i \in UpIdx(ssds)}
VolumeCreateFaults ==
    {NoFault} \cup FaultsOn({"list", "usage"}, UpDevices)
        \cup {[kind |-> k, dev |-> 0] : k \in {"create", "show", "limit"}}
VolumeDeleteFaults == {NoFault} \cup FaultsOn({"show", "delete", "destroy"}, UpDevices)

\* a node whose disks are all SSDs, nothing mounted, no volumes
Init ==
    /\ build \in Builds
    /\ devtype = [d \in Devices |-> "SSD"]
    /\ devsize = [d \in Devices |-> DeviceSize(d)]
    /\ mounted = [d \in Devices |-> FALSE]
    /\ vols = [d \in Devices |-> NoVols]
    /\ disks = [d \in Devices |-> NoDisks]
    /\ cursor = 1
    /\ ssds = <<>>
    /\ hdds = <<>>
    /\ ssd_size = 0
    /\ hdd_size = 0
    /\ allocated = {}
    /\ table = <<>>
    /\ dirs = {}
    /\ cache = <<>>
    /\ alive = {}
    /\ inflight = NoCall
    /\ HostIdle
    /\ last = NoneYet

InitStep == InitDevice(NoFault)

VolumeCreateStep ==
    \E n \in {"v1", "v2"}, s \in ReqSizes :
        \E o \in UpOraclesFor(s), f \in VolumeCreateFaults : VolumeCreate(n, s, o, f)

VolumeDeleteStep ==
    \E n \in {"v1", "v2"}, f \in VolumeDeleteFaults : VolumeDelete(n, f)

Next ==
    \/ InitStep
    \/ Restart
    \/ VolumeCreateStep
    \/ VolumeDeleteStep

Spec == Init /\ [][Next]_vars

(* ------------------------- one pool at a time ------------------------- *)
\* Pool::into_up on ssds[i], up to the first point where the future can
\* be suspended: the await of btrfs quota enable inside down.up().  The
\* mount is a plain syscall and has been made by then.
IntoUpBegin(i, oc) ==
    /\ Ready
    /\ i \in Indices(ssds)
    /\ LET p == ssds[i]
           d == p.device
           m == BtrfsMount(mounted[d], oc)
       IN IF p.state = "Transit"
          THEN \* self.state() runs unreachable!()
               /\ last' = PoolCall("into_up", d, "panic", {})
               /\ UNCHANGED <<ssds, mounted, inflight>>
          ELSE IF p.state = "Up"
          THEN /\ last' = PoolCall("into_up", d, "ok", {})
               /\ UNCHANGED <<ssds, mounted, inflight>>
          ELSE IF ~m.ok
          THEN /\ ssds' = [ssds EXCEPT ![i] = IntoUpResult(p, m)]
               /\ last' = PoolCall("into_up", d, "error", {d})
               /\ UNCHANGED <<mounted, inflight>>
          ELSE /\ ssds' = [ssds EXCEPT ![i] = Pool(d, "Transit")]
               /\ mounted' = [mounted EXCEPT ![d] = m.mounted]
               /\ inflight' = [dir |-> "up", idx |-> i]
               /\ last' = PoolCall("into_up", d, "pending", {})
    /\ UNCHANGED <<build, devtype, devsize, vols, disks, cursor, hdds, totals, allocated, flist, host>>

\* the suspended into_up is polled to its end
IntoUpFinish(oc) ==
    /\ inflight.dir = "up"
    /\ LET i == inflight.idx
           d == ssds[i].device
           r == [ok |-> BtrfsQuota(oc), mounted |-> mounted[d]]
       IN /\ ssds' = [ssds EXCEPT ![i] = IntoUpResult(ssds[i], r)]
          /\ last' = PoolCall("into_up", d, IF r.ok THEN "ok" ELSE "error",
                              IF r.ok THEN {} ELSE {d})
    /\ inflight' = NoCall
    /\ UNCHANGED <<build, devtype, devsize, mounted, vols, disks, cursor, hdds, totals, allocated, flist, host>>

\* the suspended into_up is dropped by its caller and never polled again:
\* nothing runs in into_up after the await
DropFuture ==
    /\ inflight # NoCall
    /\ inflight' = NoCall
    /\ last' = PoolCall("into_up", ssds[inflight.idx].device, "dropped", {})
    /\ UNCHANGED <<build, devtype, devsize, mounted, vols, disks, cursor, ssds, hdds, totals, allocated, flist, host>>

\* Pool::into_down on ssds[i]; BtrfsUpPool::down awaits nothing, so the
\* call ends in the poll that starts it
IntoDownCall(i, oc) ==
    /\ Ready
    /\ i \in Indices(ssds)
    /\ LET p == ssds[i]
           d == p.device
           r == IntoDown(p, mounted[d], oc)
       IN IF p.state = "Transit"
          THEN /\ last' = PoolCall("into_down", d, "panic", {})
               /\ UNCHANGED <<ssds, mounted>>
          ELSE /\ ssds' = [ssds EXCEPT ![i] = r.pool]
               /\ mounted' = [mounted EXCEPT ![d] = r.mounted]
               /\ last' = PoolCall("into_down", d, IF r.ok THEN "ok" ELSE "error",
                                   IF r.ok THEN {} ELSE {d})
    /\ UNCHANGED <<build, devtype, devsize, vols, disks, cursor, hdds, totals, allocated, inflight, flist, host>>

IntoUpStep == \E i \in Devices, oc \in {"ok", "mount"} : IntoUpBegin(i, oc)
IntoUpDone == \E oc \in {"ok", "quota"} : IntoUpFinish(oc)
IntoDownStep == \E i \in Devices, oc \in {"ok", "umount"} : IntoDownCall(i, oc)

NextPool ==
    \/ InitStep
    \/ Restart
    \/ IntoUpStep
    \/ IntoUpDone
    \/ DropFuture
    \/ IntoDownStep

SpecPool == Init /\ [][NextPool]_vars

(* ------------------------------ properties ---------------------------- *)
\* the pool of ssds that owns device d
PoolOf(d) == ssds[CHOOSE i \in Indices(ssds) : ssds[i].device = d]
Tracked(d) == d \in DevicesOf(ssds)
PoolReturned == last.op \in {"into_up", "into_down"} /\ last.res \in {"ok", "error"}

\* C1: when the up() under Pool::into_up fails on a Down pool, the call
\* returns the error and the pool is Down again with the device it had;
\* when the down() under Pool::into_down fails on an Up pool, the call
\* returns the error and the pool is Up again with the device it had.
C1_FailedTransitionRestores ==
    (last.op \in {"into_up", "into_down"} /\ last.failed # {}) =>
        /\ last.res = "error"
        /\ last.failed = {last.dev}
        /\ Tracked(last.dev)
        /\ PoolOf(last.dev) =
              Pool(last.dev, IF last.op = "into_up" THEN "Down" ELSE "Up")

\* an into_up that got past the mount, was suspended, and failed at the
\* quota command: the pool has been through Transit and is Down again
C1_Witness ==
    /\ last.op = "into_up"
    /\ last.failed = {last.dev}
    /\ last.res = "error"
    /\ mounted[last.dev]
    /\ PoolOf(last.dev).state = "Down"

\* C2: whenever no into_up or into_down is in progress (it returned,
\* panicked or its future was dropped), no pool is the Transit placeholder,
\* so name(), size() and state() never run into unreachable!().
C2_NeverLeftTransit ==
    /\ inflight = NoCall => \A i \in Indices(ssds) : ssds[i].state # "Transit"
    /\ last.res # "panic"

\* C3: after every into_up or into_down that returned, with Ok or with an
\* error, the pool is Up exactly when its device is mounted on the pool
\* path; a bring-up that failed leaves the pool Down and the device not
\* mounted.
C3_StateAgreesWithMount ==
    (PoolReturned /\ Tracked(last.dev)) =>
        (PoolOf(last.dev).state = "Up" <=> mounted[last.dev])

\* --- what the manager's calls see before they run (the unprimed state)
\* and what they returned (last')
HasVolume(n) == \E i \in UpIdx(ssds) : vols[ssds[i].device][n] # Absent
UsedOn(d) == PoolUsed(vols[d], disks[d])
UpHasRoom(s) == \E i \in UpIdx(ssds) : UsedOn(ssds[i].device) + s < devsize[ssds[i].device]
CanComeUp(s) == {i \in DownIdx(ssds) : devsize[ssds[i].device] >= s /\ ~mounted[ssds[i].device]}
States(pools) == [i \in Indices(pools) |-> pools[i].state]
\* a volume_create for a new name and a size above zero, no command of
\* which is made to fail
CleanCreate ==
    /\ last'.op = "volume_create"
    /\ ~last'.faulted
    /\ last'.size > 0
    /\ ~HasVolume(last'.name)

\* C4: if some Up pool has used + size < total, volume_create for a new
\* name puts the volume on a pool that was already Up and changes no
\* pool's state: no Down pool is brought Up (nothing is mounted).
C4_PrefersUpPool ==
    [][(CleanCreate /\ UpHasRoom(last'.size)) =>
          /\ last'.res = "ok"
          /\ last'.sel = "up"
          /\ last'.dev \in UpDevices
          /\ ssds' = ssds
          /\ mounted' = mounted
          /\ vols' = [vols EXCEPT ![last'.dev][last'.name] = last'.size]]_vars

\* a volume was put on an Up pool while a Down pool big enough for it
\* stayed Down
C4_Witness ==
    /\ last.op = "volume_create"
    /\ last.res = "ok"
    /\ last.sel = "up"
    /\ ~last.faulted
    /\ \E i \in DownIdx(ssds) : devsize[ssds[i].device] >= last.size

\* C5: if no Up pool has used + size < total and some Down pool has
\* declared size >= size and can be brought up, volume_create for a new
\* name brings the first such Down pool Up, creates the volume on it and
\* leaves every other pool as it was.  (Stated for the calls in which no
\* up() is made to fail: the pools that can come up are the unmounted ones.)
C5_SpillsToFirstDown ==
    [][(CleanCreate /\ ~last'.upfault /\ ~UpHasRoom(last'.size)
            /\ CanComeUp(last'.size) # {}) =>
          LET k == Min(CanComeUp(last'.size))
              d == ssds[k].device
          IN /\ last'.res = "ok"
             /\ last'.sel = "down"
             /\ last'.dev = d
             /\ ssds' = [ssds EXCEPT ![k] = Pool(d, "Up")]
             /\ vols' = [vols EXCEPT ![d][last'.name] = last'.size]]_vars

\* C6: when no pool can satisfy a request (no Up pool has used + size <
\* total, and every Down pool of declared size >= size was tried and did
\* not come up), volume_create fails with NoEnoughSpaceLeft and every pool
\* has the state and the volumes it had before the call.
C6_NoSpaceChangesNothing ==
    [][(CleanCreate /\ ~UpHasRoom(last'.size)
            /\ \A i \in DownIdx(ssds) :
                  devsize[ssds[i].device] >= last'.size => ssds[i].device \in last'.failed) =>
          /\ last'.res = "no_space"
          /\ States(ssds') = States(ssds)
          /\ vols' = vols]_vars

C8_SecondCreateReturnsFirst ==
    [][(/\ last.op = "volume_create" /\ last.res = "ok"
        /\ last'.op = "volume_create" /\ last'.name = last.name
        /\ last'.size > 0 /\ ~last'.faulted) =>
          /\ last'.res = "ok"
          /\ last'.sel = "existing"
          /\ last'.dev = last.dev
          /\ vols' = vols
          /\ ssds' = ssds
          /\ last.sel \in {"up", "down"} => vols'[last.dev][last.name] = last.size]_vars

\* a volume_create returned a volume that exists, for a size that is not
\* the volume's quota
C8_Witness ==
    /\ last.op = "volume_create"
    /\ last.res = "ok"
    /\ last.sel = "existing"
    /\ vols[last.dev][last.name] > NoLimit
    /\ vols[last.dev][last.name] # last.size

C10_DeleteIsIdempotent ==
    [][(last'.op = "volume_delete" /\ ~last'.faulted) =>
          /\ last'.res = "ok"
          /\ \A i \in UpIdx(ssds') : vols'[ssds'[i].device][last'.name] = Absent]_vars

(* ------------------- a node with SSD and HDD devices ------------------ *)
\* StorageManager::device_allocate from the pool at index i on: the first
\* HDD pool that is not Up and is big enough is brought up; it is returned
\* with a new zdb volume unless it holds one already
RECURSIVE DeviceAllocateFrom(_, _, _, _, _, _, _, _, _)
DeviceAllocateFrom(pools, mnt, vs, ds, sizes, min, upOc, f, i) ==
    IF i > Len(pools)
    THEN Outcome("no_device_left", 0, "none", {}, pools, mnt, vs, ds)
    ELSE LET d == pools[i].device
         IN IF pools[i].state = "Up" \/ sizes[d] < min
            THEN DeviceAllocateFrom(pools, mnt, vs, ds, sizes, min, upOc, f, i + 1)
            ELSE LET u == IntoUp(pools[i], mnt[d], upOc[d])
                     pools2 == [pools EXCEPT ![i] = u.pool]
                     mnt2 == [mnt EXCEPT ![d] = u.mounted]
                     pv == PoolVolume(vs, d, ZDB_VOLUME, f)
                     c == BtrfsVolumeCreate(vs, d, ZDB_VOLUME, f)
                 IN IF ~u.ok
                    THEN Outcome("error", d, "none", {d}, pools2, mnt2, vs, ds)
                    ELSE IF pv = "ok"
                    THEN DeviceAllocateFrom(pools2, mnt2, vs, ds, sizes, min, upOc, f, i + 1)
                    ELSE IF pv = "error"
                    THEN Outcome("error", d, "none", {}, pools2, mnt2, vs, ds)
                    ELSE Outcome(IF c.ok THEN "ok" ELSE "error", d, "down", {},
                                 pools2, mnt2, c.vols, ds)

\* an allocation that takes the first pool that is big enough, Up or not
DeviceAllocateAny(pools, mnt, vs, ds, sizes, min, upOc, f) ==
    LET fit == {i \in Indices(pools) : sizes[pools[i].device] >= min}
    IN IF fit = {} THEN Outcome("no_device_left", 0, "none", {}, pools, mnt, vs, ds)
       ELSE LET i == Min(fit)
                d == pools[i].device
            IN Outcome("ok", d, "down", {}, [pools EXCEPT ![i] = Pool(d, "Up")],
                       [mnt EXCEPT ![d] = TRUE], [vs EXCEPT ![d][ZDB_VOLUME] = NoLimit], ds)

\* StorageManager::device_allocate
DeviceAllocateCall(pools, mnt, vs, ds, sizes, min, upOc, f) ==
    DeviceAllocateFrom(pools, mnt, vs, ds, sizes, min, upOc, f, 1)

\* StorageManager::volumes: the volumes of every Up pool
VolumesCall(pools, mnt, vs, ds, f) ==
    Outcome(IF \E i \in UpIdx(pools) : Hits(f, "list", pools[i].device)
            THEN "error" ELSE "ok", 0, "none", {}, pools, mnt, vs, ds)

\* a lookup that brings the Down pools up to look into them
VolumeLookupMounting(pools, mnt, vs, ds, name, f) ==
    LET up == [i \in Indices(pools) |-> Pool(pools[i].device, "Up")]
        found == VolumeLookup(up, vs, name, f)
    IN Outcome(found.res, IF found.res = "ok" THEN up[found.idx].device ELSE 0,
               "none", {}, up, [d \in Devices |-> mnt[d] \/ d \in DevicesOf(pools)], vs, ds)

\* StorageManager::volume_lookup, with the state it leaves
VolumeLookupCall(pools, mnt, vs, ds, name, f) ==
    LET found == VolumeLookup(pools, vs, name, f)
    IN Outcome(found.res, IF found.res = "ok" THEN pools[found.idx].device ELSE 0,
               "none", {}, pools, mnt, vs, ds)

\* StorageManager::disks: the files of the vdisks volume of every Up
\* pool; a pool whose volume cannot be read is passed over, a directory
\* that cannot be read ends the call
DisksCall(pools, mnt, vs, ds, f) ==
    LET read == {i \in UpIdx(pools) : PoolVolume(vs, pools[i].device, VDISKS_VOLUME, f) = "ok"}
    IN Outcome(IF \E i \in read : Hits(f, "readdir", pools[i].device)
               THEN "error" ELSE "ok", 0, "none", {}, pools, mnt, vs, ds)

\* StorageManager::disk_lookup, with the state it leaves
DiskLookupCall(pools, mnt, vs, ds, name, f) ==
    LET found == DiskLookup(pools, vs, ds, name, f)
    IN Outcome(found.res, IF found.res = "ok" THEN pools[found.idx].device ELSE 0,
               "none", {}, pools, mnt, vs, ds)

\* the failures one turn of the loop of initialize can meet
InitFaults ==
    {NoFault} \cup FaultsOn({"type", "get", "mount", "quota", "usage", "list", "umount"},
                            {cursor})

InitDeviceStep == \E f \in InitFaults : InitDevice(f)

DeviceAllocate(min, upOc, f) ==
    /\ Ready
    /\ LET r == DeviceAllocateCall(hdds, mounted, vols, disks, devsize, min, upOc, f)
       IN /\ hdds' = r.pools
          /\ mounted' = r.mounted
          /\ vols' = r.vols
          /\ allocated' = IF r.res = "ok" THEN allocated \cup {r.dev} ELSE allocated
          /\ last' = Call("device_allocate", ZDB_VOLUME, min, upOc, f, r)
    /\ UNCHANGED <<build, devtype, devsize, disks, cursor, ssds, totals, inflight, flist, host>>

\* the outcome of up() for the first HDD pool device_allocate tries
HddOraclesFor(min) ==
    LET cand == {i \in DownIdx(hdds) : devsize[hdds[i].device] >= min}
    IN {AllOk} \cup {[AllOk EXCEPT ![hdds[Min(cand)].device] = kind] :
                        kind \in {k \in UpOutcomes \ {"ok"} : cand # {}}}

DeviceAllocateStep ==
    \E min \in {MinDevSize, MinDevSize + 1} :
        \E o \in HddOraclesFor(min), f \in {NoFault} \cup {[kind |-> k, dev |-> 0] : k \in {"create", "show"}} :
            DeviceAllocate(min, o, f)

SearchFaults == {NoFault} \cup FaultsOn({"list", "readdir"}, UpDevices)

Volumes(f) ==
    /\ Ready
    /\ Apply("volumes", "", 0, AllOk, f, VolumesCall(ssds, mounted, vols, disks, f))

VolumeLookupStep ==
    /\ Ready
    /\ \E n \in {"v1", "v2"}, f \in SearchFaults :
          Apply("volume_lookup", n, 0, AllOk, f,
                VolumeLookupCall(ssds, mounted, vols, disks, n, f))

Disks(f) ==
    /\ Ready
    /\ Apply("disks", "", 0, AllOk, f, DisksCall(ssds, mounted, vols, disks, f))

DiskLookupStep ==
    /\ Ready
    /\ \E n \in DiskNames, f \in SearchFaults :
          Apply("disk_lookup", n, 0, AllOk, f,
                DiskLookupCall(ssds, mounted, vols, disks, n, f))

VolumesStep == \E f \in SearchFaults : Volumes(f)
DisksStep == \E f \in SearchFaults : Disks(f)

NodeDeleteStep == \E f \in VolumeDeleteFaults : VolumeDelete("v1", f)

\* what a device holds when the manager starts: nothing (mounted or
\* not), a volume (not mounted, after a reboot), or the vdisks volume
\* with one disk file (still mounted)
Blank == NoVols
WithVolume == [NoVols EXCEPT !["v1"] = 1]
WithDisk == [NoVols EXCEPT ![VDISKS_VOLUME] = NoLimit]
Starts ==
    {[mounted |-> FALSE, vols |-> Blank], [mounted |-> TRUE, vols |-> Blank],
     [mounted |-> FALSE, vols |-> WithVolume], [mounted |-> TRUE, vols |-> WithDisk]}

\* a node that has run before: the first k devices are SSDs, the others
\* HDDs
InitNode ==
    /\ build = "release"
    /\ \E k \in 0 .. NumDevices : devtype = [d \in Devices |-> IF d <= k THEN "SSD" ELSE "HDD"]
    /\ devsize = [d \in Devices |-> DeviceSize(d)]
    /\ \E st \in [Devices -> Starts] :
          /\ mounted = [d \in Devices |-> st[d].mounted]
          /\ vols = [d \in Devices |-> st[d].vols]
    /\ disks = [d \in Devices |-> IF vols[d] = WithDisk THEN [NoDisks EXCEPT !["d1"] = 1]
                                  ELSE NoDisks]
    /\ cursor = 1
    /\ ssds = <<>>
    /\ hdds = <<>>
    /\ ssd_size = 0
    /\ hdd_size = 0
    /\ allocated = {}
    /\ table = <<>>
    /\ dirs = {}
    /\ cache = <<>>
    /\ alive = {}
    /\ inflight = NoCall
    /\ HostIdle
    /\ last = NoneYet

NextNode ==
    \/ InitDeviceStep
    \/ Restart
    \/ DeviceAllocateStep

SpecNode == InitNode /\ [][NextNode]_vars

\* the same node with SSDs only, and the calls that search its pools
InitSearch == InitNode /\ devtype = [d \in Devices |-> "SSD"]

NextSearch ==
    \/ InitStep
    \/ Restart
    \/ VolumesStep
    \/ VolumeLookupStep
    \/ NodeDeleteStep
    \/ DisksStep
    \/ DiskLookupStep

SpecSearch == InitSearch /\ [][NextSearch]_vars

(* ---------------------- properties of a node -------------------------- *)
KeptPools == {ssds[i] : i \in Indices(ssds)} \cup {hdds[i] : i \in Indices(hdds)}
Initializing == last.op = "init"

\* C11: while and right after initialize runs, every pool kept in ssds or
\* hdds is Down when its device holds no volume and Up when it holds at
\* least one, whether BtrfsPool::with found the device mounted or not.
C11_KeptPoolsMatchVolumes ==
    Initializing =>
        \A p \in KeptPools :
            /\ vols[p.device] = NoVols => p.state = "Down"
            /\ vols[p.device] # NoVols => p.state = "Up"

C11_Witness ==
    /\ Initializing
    /\ cursor > NumDevices
    /\ \E p \in KeptPools : p.state = "Down" /\ vols[p.device] = NoVols
    /\ \E p \in KeptPools : p.state = "Up" /\ vols[p.device] # NoVols

InitTurn == last'.op = "init" /\ cursor' # cursor

SearchOps == {"volumes", "volume_lookup", "volume_delete", "disks", "disk_lookup"}

\* C13: volumes, volume_lookup, volume_delete, disks and disk_lookup leave
\* every pool in the state it was in and the mount table as it was; what
\* a lookup finds is on a pool that was Up, and volume_delete removes
\* nothing from a device whose pool was not Up.
C13_SearchLeavesPoolsAlone ==
    [][last'.op \in SearchOps =>
        /\ ssds' = ssds
        /\ hdds' = hdds
        /\ mounted' = mounted
        /\ last'.op \in {"volume_lookup", "disk_lookup"} /\ last'.res = "ok" =>
              last'.dev \in UpDevices
        /\ \A d \in Devices \ UpDevices : vols'[d] = vols[d] /\ disks'[d] = disks[d]
        /\ last'.op # "volume_delete" => vols' = vols /\ disks' = disks]_vars

C13_Witness ==
    /\ last.op = "volume_lookup"
    /\ last.res = "ok"
    /\ DownIdx(ssds) # {}
    /\ \E i \in DownIdx(ssds) : ssds[i].device < last.dev /\ ~mounted[ssds[i].device]

\* C14: a device_allocate that succeeds returns an HDD pool that no
\* earlier successful device_allocate has returned, restarts of the
\* manager in between included, and that held no zdb volume before the
\* call; the pool is big enough and holds the zdb volume afterwards.
C14_DeviceAllocatedOnce ==
    [][last'.op = "device_allocate" /\ last'.res = "ok" =>
        /\ last'.dev \notin allocated
        /\ vols[last'.dev][ZDB_VOLUME] = Absent
        /\ vols'[last'.dev][ZDB_VOLUME] # Absent
        /\ last'.dev \in DevicesOf(hdds)
        /\ devsize[last'.dev] >= last'.size]_vars

C14_Witness ==
    /\ last.op = "device_allocate"
    /\ last.res = "ok"
    /\ Cardinality(allocated) >= 2
    /\ \E i \in Indices(hdds) :
          /\ hdds[i].device < last.dev
          /\ hdds[i].device \in allocated
          /\ devsize[hdds[i].device] >= last.size

(* --------------------------- flist daemon ----------------------------- *)
\* flists (content hashes), mount names and process ids
NumHashes == 2
NumNames == 2
MaxPid == 3
Hashes == 1 .. NumHashes
Names == 1 .. NumNames
Pids == 1 .. MaxPid

G8UFS == "fuse.g8ufs"
OVERLAY == "overlay"

\* the directories below the root of the daemon: ro/<hash>, mountpoint/<name>
RoDir(h) == <<"ro", h>>
NamePath(n) == <<"mountpoint", n>>
NoPath == <<>>

\* one line of /proc/mounts.  source is the pid of the g8ufs process of a
\* fuse.g8ufs mount and 0 for a source that is not a number ("overlay",
\* "/dev/sda"); lower is the lowerdir option of an overlay
Mount(source, target, filesystem, lower) ==
    [source |-> source, target |-> target, filesystem |-> filesystem, lower |-> lower]

\* the pool of the storage manager, mounted outside the root of the daemon
PoolMount == Mount(0, <<"mnt", 1>>, "btrfs", NoPath)

\* mount.source.parse::<i64>()
ParsePid(source) == [ok |-> source > 0, pid |-> source]

\* the mountpoints of the table
Targets(t) == {t[i].target : i \in 1 .. Len(t)}

\* the lines of the table with this target
MountsAt(t, target) == {i \in 1 .. Len(t) : t[i].target = target}

\* umount(2): the mount on top of the target goes
Umount(t, target) ==
    LET top == CHOOSE i \in MountsAt(t, target) : \A j \in MountsAt(t, target) : j <= i
    IN [i \in 1 .. Len(t) - 1 |-> IF i < top THEN t[i] ELSE t[i + 1]]

\* clean_unused_mounts, first loop: the fuse.g8ufs mounts whose parent is ro/
RoMounts(t) == {i \in 1 .. Len(t) : t[i].target[1] = "ro" /\ t[i].filesystem = G8UFS}
\* second loop: the mounts whose parent is mountpoint/
NamedMounts(t) == {i \in 1 .. Len(t) : t[i].target[1] = "mountpoint"}

\* the mount the lowerdir of the overlay at i names: the first line of the
\* table with that target, 0 when there is none
LowerOf(t, i) ==
    IF MountsAt(t, t[i].lower) = {} THEN 0 ELSE Min(MountsAt(t, t[i].lower))

\* a marking that passes over the overlay mounts
PidOfBindOnly(t, i) ==
    IF t[i].filesystem = G8UFS THEN ParsePid(t[i].source)
    ELSE [ok |-> TRUE, pid |-> 0]

\* the pid a mount under mountpoint/ takes out of ro_targets: pid 0 stands
\* for `continue`, ok = FALSE for an error returned with `?` or bail!
PidOf(t, i) ==
    IF t[i].filesystem = G8UFS THEN ParsePid(t[i].source)
    ELSE IF t[i].filesystem = OVERLAY
    THEN IF t[i].lower = NoPath THEN [ok |-> FALSE, pid |-> 0]
         ELSE IF LowerOf(t, i) = 0 THEN [ok |-> TRUE, pid |-> 0]
         ELSE ParsePid(t[LowerOf(t, i)].source)
    ELSE [ok |-> TRUE, pid |-> 0]

\* ro_targets after both loops: for every pid that is left, the last ro
\* mount inserted under it
RoTargets(t) ==
    LET used == {PidOf(t, i).pid : i \in NamedMounts(t)}
        left == {t[i].source : i \in RoMounts(t)} \ used
    IN {t[CHOOSE i \in RoMounts(t) :
              /\ t[i].source = pid
              /\ \A j \in RoMounts(t) : t[j].source = pid => j <= i] : pid \in left}

\* the third loop: one umount for every mount left in ro_targets
RECURSIVE UmountAll(_, _)
UmountAll(t, ms) ==
    IF ms = {} THEN t
    ELSE LET m == CHOOSE x \in ms : TRUE
         IN UmountAll(Umount(t, m.target), ms \ {m})

\* MountManager::clean_unused_mounts.  f.read: /proc/mounts cannot be
\* read; f.busy: the targets whose umount fails; f.kept: the targets whose
\* remove_dir_all fails
CleanUnusedMounts(t, ds, f) ==
    IF \/ f.read
       \/ \E i \in RoMounts(t) : ~ParsePid(t[i].source).ok
       \/ \E i \in NamedMounts(t) : ~PidOf(t, i).ok
    THEN [res |-> "error", cmds |-> {}, table |-> t, dirs |-> ds]
    ELSE LET sweep == RoTargets(t)
             gone == {m \in sweep : m.target \notin f.busy}
             after == UmountAll(t, gone)
         IN [res |-> "ok", cmds |-> {<<"umount", m.target>> : m \in sweep},
             table |-> after,
             dirs |-> ds \ {m.target : m \in {x \in gone : /\ MountsAt(after, x.target) = {}
                                                            /\ x.target \notin f.kept}}]

(* ------------------------- flist daemon: actions ---------------------- *)
\* the record of a call of the daemon: what it returned, the commands and
\* system calls it issued and the ones that were made to fail
FlistCall(op, name, res, path, cmds, failed) ==
    [op |-> op, name |-> name, res |-> res, path |-> path, cmds |-> cmds,
     failed |-> failed]

NoFlistCall == FlistCall("none", 0, "ok", NoPath, {}, FALSE)

CleanFaults ==
    {[read |-> r, busy |-> b, kept |-> k] :
        r \in BOOLEAN, b \in {{}, {RoDir(1)}}, k \in {{}, {RoDir(1)}}}

CleanStep ==
    \E f \in CleanFaults :
        LET r == CleanUnusedMounts(table, dirs, f)
        IN /\ table' = r.table
           /\ dirs' = r.dirs
           /\ alive' = alive \ {table[i].source : i \in {j \in RoMounts(table) : table[j].target \notin Targets(r.table)}}
           /\ last' = FlistCall("clean_unused_mounts", 0, r.res, NoPath, r.cmds,
                                f.read \/ f.busy # {} \/ f.kept # {})
           /\ UNCHANGED <<storage, cache>>

\* a g8ufs process dies; its mounts stay in the table
ProcessDies ==
    \E p \in alive :
        /\ alive' = alive \ {p}
        /\ last' = FlistCall("exit", p, "ok", NoPath, {}, FALSE)
        /\ UNCHANGED <<storage, table, dirs, cache>>

(* ---------------------- flist daemon: mounting ------------------------ *)
\* the text of an error, word by word
ENOENT == <<"No", "such", "file", "or", "directory", "(os", "error", "2)">>
ENOTCONN == <<"Transport", "endpoint", "is", "not", "connected", "(os", "error", "107)">>
AlreadyMounted == <<"path", "is", "already", "mounted">>
CheckFailed == <<"failed", "to", "check", "mountpoint:">>
UnmountFailed == <<"unmount", "failed">>
NoError == <<>>

\* str::contains
Contains(text, needle) ==
    \E i \in 0 .. Len(text) - Len(needle) : \A j \in 1 .. Len(needle) : text[i + j] = needle[j]

\* std::io::Error::kind() of an error of the operating system
KindOf(errno) ==
    IF errno = ENOENT THEN "NotFound"
    ELSE IF errno = ENOTCONN THEN "NotConnected"
    ELSE "Other"

\* fs::metadata of a path: a directory, or the error of the operating
\* system.  A fuse mount whose process is gone answers ENOTCONN
Metadata(t, ds, al, path) ==
    IF MountsAt(t, path) # {}
    THEN LET top == t[CHOOSE i \in MountsAt(t, path) : \A j \in MountsAt(t, path) : j <= i]
         IN IF top.filesystem = G8UFS /\ top.source \notin al
            THEN [dir |-> FALSE, err |-> ENOTCONN]
            ELSE [dir |-> TRUE, err |-> NoError]
    ELSE IF path \in ds THEN [dir |-> TRUE, err |-> NoError]
    ELSE [dir |-> FALSE, err |-> ENOENT]

\* FListDaemon::valid (flist/mod.rs): the error it returns, NoError for
\* Ok(()), and the commands it ran.  exec: the command cannot be spawned
FListDaemonValid(t, ds, al, path, f) ==
    LET md == Metadata(t, ds, al, path)
    IN IF md.dir
       THEN [err |-> IF "exec" \in f THEN NoError ELSE AlreadyMounted,
             cmds |-> {"mountpoint"}, table |-> t]
       ELSE IF Contains(md.err, <<"No", "such", "file", "or", "directory", "(os", "error", "2)">>)
       THEN [err |-> NoError, cmds |-> {}, table |-> t]
       ELSE IF Contains(md.err, <<"transport", "endpoint", "is", "not", "connected">>)
       THEN IF "umount" \in f
            THEN [err |-> UnmountFailed, cmds |-> {"umount"}, table |-> t]
            ELSE [err |-> NoError, cmds |-> {"umount"}, table |-> Umount(t, path)]
       ELSE [err |-> CheckFailed, cmds |-> {}, table |-> t]

\* FListDaemon::mount (flist/mod.rs)
FListDaemonMount(t, ds, al, n, f) ==
    LET v == FListDaemonValid(t, ds, al, NamePath(n), f)
    IN IF v.err # NoError
       THEN IF Contains(v.err, <<"path", "is", "already", "mounted">>)
            THEN [res |-> "ok", path |-> NamePath(n), cmds |-> v.cmds, table |-> v.table]
            ELSE [res |-> "error", path |-> NoPath, cmds |-> v.cmds, table |-> v.table]
       ELSE [res |-> "ok", path |-> <<"success">>, cmds |-> v.cmds, table |-> v.table]

\* MetadataDbMgr::is_mounted (flist/db.rs): the exit status of `mountpoint`
MetadataDbMgrIsMounted(t, path, f) == "exec" \notin f /\ MountsAt(t, path) # {}

\* MetadataDbMgr::valid (flist/db.rs): the kind of the error, "Ok" for Ok(())
MetadataDbMgrValid(t, ds, al, path, f) ==
    LET md == Metadata(t, ds, al, path)
    IN IF md.dir
       THEN [kind |-> IF MetadataDbMgrIsMounted(t, path, f) THEN "AlreadyExists" ELSE "Ok",
             cmds |-> {"mountpoint"}, table |-> t]
       ELSE IF KindOf(md.err) = "NotFound" THEN [kind |-> "Ok", cmds |-> {}, table |-> t]
       ELSE IF KindOf(md.err) = "ConnectionAborted"
       THEN IF "umount" \in f
            THEN [kind |-> "Other", cmds |-> {"umount"}, table |-> t]
            ELSE [kind |-> "Ok", cmds |-> {"umount"}, table |-> Umount(t, path)]
       ELSE [kind |-> "Other", cmds |-> {}, table |-> t]

\* fs::remove_dir_all: fails on a path that does not exist and on a path
\* that is still a mountpoint
RemoveDirAll(t, ds, path, fails) ==
    IF fails \/ path \notin ds \/ MountsAt(t, path) # {}
    THEN [ok |-> FALSE, dirs |-> ds]
    ELSE [ok |-> TRUE, dirs |-> ds \ {path}]

\* MetadataDbMgr::unmount (flist/db.rs)
MetadataDbMgrUnmount(t, ds, al, n, f) ==
    LET path == NamePath(n)
        v == MetadataDbMgrValid(t, ds, al, path, f)
        um == v.kind = "AlreadyExists"
        c1 == v.cmds \cup (IF um THEN {"umount"} ELSE {})
    IN IF um /\ "umount" \in f
       THEN [res |-> "error", cmds |-> c1, table |-> v.table, dirs |-> ds]
       ELSE LET t1 == IF um THEN Umount(v.table, path) ELSE v.table
                rm == RemoveDirAll(t1, ds, path, "remove" \in f)
            IN IF ~rm.ok
               THEN [res |-> "error", cmds |-> c1 \cup {"remove_dir_all"},
                     table |-> t1, dirs |-> ds]
               ELSE IF "delete" \in f
               THEN [res |-> "error", cmds |-> c1 \cup {"remove_dir_all", "delete"},
                     table |-> t1, dirs |-> rm.dirs]
               ELSE [res |-> "ok", cmds |-> c1 \cup {"remove_dir_all", "delete"},
                     table |-> t1, dirs |-> rm.dirs]

\* storage::mountpoint: Ok(Some(mount)), Ok(None), or the error of reading
\* /proc/mounts
Mountpoint(t, path, unreadable) ==
    IF unreadable THEN [ok |-> FALSE, found |-> FALSE]
    ELSE [ok |-> TRUE, found |-> MountsAt(t, path) # {}]

\* MountManager::is_mounted (flist/mount.rs)
MountManagerIsMounted(t, path, unreadable) == Mountpoint(t, path, unreadable).ok

\* MountManager::valid (flist/mount.rs)
MountManagerValid(t, ds, al, path, unreadable) ==
    LET md == Metadata(t, ds, al, path)
    IN IF md.dir THEN ~MountManagerIsMounted(t, path, unreadable)
       ELSE IF KindOf(md.err) = "NotFound" THEN TRUE
       ELSE FALSE

\* a pid for a new process
FreePids(t, al) == Pids \ (al \cup {t[i].source : i \in 1 .. Len(t)})

\* MountManager::mount_ro (flist/mount.rs) once db.get has given the flist
\* file of hash h.  f: "get" (db.get fails), "read" and "read2" (the first
\* and the second reading of /proc/mounts fail), "g8ufs" (the command
\* fails).  g8ufs exits with an error on a mountpoint that is in use
MountManagerMountRo(t, ds, al, h, f) ==
    LET path == RoDir(h)
        same == [table |-> t, dirs |-> ds, alive |-> al]
    IN IF "get" \in f
       THEN same @@ [res |-> "error", path |-> NoPath, cmds |-> {}]
       ELSE IF MountManagerIsMounted(t, path, "read" \in f)
       THEN same @@ [res |-> "ok", path |-> path, cmds |-> {}]
       ELSE IF ~MountManagerValid(t, ds, al, path, "read2" \in f)
       THEN same @@ [res |-> "error", path |-> NoPath, cmds |-> {}]
       ELSE IF "g8ufs" \in f \/ MountsAt(t, path) # {} \/ FreePids(t, al) = {}
       THEN [table |-> t, dirs |-> ds \cup {path}, alive |-> al,
             res |-> "error", path |-> NoPath, cmds |-> {"g8ufs"}]
       ELSE LET pid == Min(FreePids(t, al))
            IN [table |-> Append(t, Mount(pid, path, G8UFS, NoPath)),
                dirs |-> ds \cup {path}, alive |-> al \cup {pid},
                res |-> "ok", path |-> path, cmds |-> {"g8ufs"}]

MountFaults == {{}, {"exec"}, {"umount"}}

MountStep ==
    \E n \in Names, f \in MountFaults :
        LET r == FListDaemonMount(table, dirs, alive, n, f)
        IN /\ table' = r.table
           /\ last' = FlistCall("mount", n, r.res, r.path, r.cmds, f # {})
           /\ UNCHANGED <<storage, dirs, cache, alive>>

UnmountFaults == {{}, {"exec"}, {"umount"}, {"remove"}, {"delete"}}

UnmountStep ==
    \E n \in Names, f \in UnmountFaults :
        LET r == MetadataDbMgrUnmount(table, dirs, alive, n, f)
        IN /\ table' = r.table
           /\ dirs' = r.dirs
           /\ last' = FlistCall("unmount", n, r.res, NoPath, r.cmds, f # {})
           /\ UNCHANGED <<storage, cache, alive>>

MountRoFaults == {{}, {"get"}, {"read"}, {"read", "read2"}, {"read", "g8ufs"}}

MountRoStep ==
    \E h \in Hashes, f \in MountRoFaults :
        LET r == MountManagerMountRo(table, dirs, alive, h, f)
        IN /\ table' = r.table
           /\ dirs' = r.dirs
           /\ alive' = r.alive
           /\ last' = FlistCall("mount_ro", h, r.res, r.path, r.cmds, f # {})
           /\ UNCHANGED <<storage, cache>>

\* the table of a node where flists are mounted: flist h, when mounted, is
\* served by the g8ufs process h; named[n] says whether name n is not
\* mounted, a bind mount of a mounted base, or an overlay over a base that
\* is or is no longer mounted
RECURSIVE BaseLines(_, _)
BaseLines(bases, h) ==
    IF h = 0 THEN <<PoolMount>>
    ELSE IF h \in bases THEN Append(BaseLines(bases, h - 1), Mount(h, RoDir(h), G8UFS, NoPath))
    ELSE BaseLines(bases, h - 1)

RECURSIVE NamedLines(_, _, _)
NamedLines(bases, named, n) ==
    IF n = 0 THEN BaseLines(bases, NumHashes)
    ELSE LET t == NamedLines(bases, named, n - 1)
         IN IF named[n].kind = "bind"
            THEN Append(t, Mount(named[n].base, NamePath(n), G8UFS, NoPath))
            ELSE IF named[n].kind = "overlay"
            THEN Append(t, Mount(0, NamePath(n), OVERLAY, RoDir(named[n].base)))
            ELSE t

NamedStarts(bases) ==
    {[kind |-> "none", base |-> 0]}
        \cup {[kind |-> "bind", base |-> h] : h \in bases}
        \cup {[kind |-> "overlay", base |-> h] : h \in Hashes}

\* a node after the storage manager has come up, with some flists mounted
\* and some of their processes gone
InitFlist ==
    /\ build = "release"
    /\ devtype = [d \in Devices |-> "SSD"]
    /\ devsize = [d \in Devices |-> DeviceSize(d)]
    /\ mounted = [d \in Devices |-> FALSE]
    /\ vols = [d \in Devices |-> NoVols]
    /\ disks = [d \in Devices |-> NoDisks]
    /\ cursor = 1
    /\ ssds = <<>>
    /\ hdds = <<>>
    /\ ssd_size = 0
    /\ hdd_size = 0
    /\ allocated = {}
    /\ inflight = NoCall
    /\ HostIdle
    /\ \E bases \in SUBSET Hashes :
          /\ \E named \in [Names -> NamedStarts(bases)] :
                table = NamedLines(bases, named, NumNames)
          /\ alive \in {bases, bases \ {1}}
    /\ \E left \in SUBSET {NamePath(1)} : dirs = (Targets(table) \ {PoolMount.target}) \cup left
    /\ cache = <<>>
    /\ last = NoFlistCall

NextFlist ==
    \/ MountRoStep
    \/ MountStep
    \/ UnmountStep
    \/ CleanStep
    \/ ProcessDies

SpecFlist == InitFlist /\ [][NextFlist]_vars

(* ----------------------- properties of the flist daemon --------------- *)
\* a named mount depends on a read-only base: it is a bind mount served by
\* the process of the base, or an overlay whose lowerdir is the base
DependsOn(named, base) ==
    \/ named.filesystem = G8UFS /\ named.source = base.source
    \/ named.filesystem = OVERLAY /\ named.lower = base.target

Lines(t) == {t[i] : i \in 1 .. Len(t)}
Bases(t) == {m \in Lines(t) : m.target[1] = "ro"}
Dependents(t, base) ==
    {m \in Lines(t) : m.target[1] = "mountpoint" /\ DependsOn(m, base)}
Orphans(t) == {b \in Bases(t) : Dependents(t, b) = {}}

Cleaned == last'.op = "clean_unused_mounts"

\* C15: clean_unused_mounts unmounts only read-only bases under ro/ that no
\* mount under mountpoint/ depends on, as a bind mount or through the
\* lowerdir of an overlay; when no command fails it unmounts every such
\* base and removes its directory, and it leaves every other mount and
\* directory as it was
C15_CleanRemovesExactlyOrphans ==
    [][Cleaned =>
        /\ Lines(table) \ Lines(table') \subseteq Orphans(table)
        /\ Lines(table') \subseteq Lines(table)
        /\ dirs \ dirs' \subseteq {b.target : b \in Orphans(table)}
        /\ ~last'.failed =>
              /\ last'.res = "ok"
              /\ Lines(table') = Lines(table) \ Orphans(table)
              /\ dirs' = dirs \ {b.target : b \in Orphans(table)}]_vars

\* a sweep that found an orphan next to a base with a bind mount and a base
\* under an overlay
C15_Witness ==
    /\ last.op = "clean_unused_mounts"
    /\ last.res = "ok"
    /\ ~last.failed
    /\ last.cmds # {}
    /\ \E m \in Lines(table) : m.target[1] = "mountpoint" /\ m.filesystem = OVERLAY
    /\ \E m \in Lines(table) : m.target[1] = "ro"

\* C16: mount of a name that is mounted at mountpoint/name returns that
\* mountpoint, and neither fetches, downloads, starts a process nor mounts or
\* unmounts anything: the only command it may run is `mountpoint`
C16_MountOfMountedNameIsIdempotent ==
    [][(/\ last'.op = "mount"
        /\ ~last'.failed
        /\ MountsAt(table, NamePath(last'.name)) # {})
       => /\ last'.res = "ok"
          /\ last'.path = NamePath(last'.name)
          /\ last'.cmds \subseteq {"mountpoint"}
          /\ table' = table]_vars

\* C17: unmount of a name succeeds when nothing is mounted at
\* mountpoint/name and the directory does not exist
C17_UnmountOfAbsentNameSucceeds ==
    [][(/\ last'.op = "unmount"
        /\ ~last'.failed
        /\ MountsAt(table, NamePath(last'.name)) = {}
        /\ NamePath(last'.name) \notin dirs)
       => last'.res = "ok"]_vars

\* C18: mount_ro starts the g8ufs process of ro/<hash> exactly when the
\* mount table has no line whose target is ro/<hash>, and when it returns
\* the path the table has such a line
C18_ProcessStartsIffNotMounted ==
    [][(last'.op = "mount_ro" /\ ~last'.failed)
       => /\ ("g8ufs" \in last'.cmds) <=> (MountsAt(table, RoDir(last'.name)) = {})
          /\ last'.res = "ok" => MountsAt(table', RoDir(last'.name)) # {}]_vars

(* ---------------------- flist daemon: downloads ----------------------- *)
\* the flist files a hub can serve, and the md5 digest of each: a function
\* of the content that is not one to one
MaxContent == 4
Contents == 0 .. MaxContent
Md5(content) == (5 * content + 3) % 4
Digests == {Md5(c) : c \in Contents}

\* the cache directory with one more file
WithFile(files, name, content) ==
    [x \in DOMAIN files \cup {name} |-> IF x = name THEN content ELSE files[x]]

\* MetadataDbMgr::compare_md5
CompareMd5(hash, content) == Md5(content) = hash

\* MetadataDbMgr::save_flist: the body goes to a temporary file that is
\* renamed to the digest of what was written
SaveFlist(files, body, f) ==
    IF "tempfile" \in f \/ "rename" \in f
    THEN [res |-> "error", path |-> NoPath, cache |-> files]
    ELSE [res |-> "ok", path |-> <<"flist", Md5(body)>>,
          cache |-> WithFile(files, Md5(body), body)]

\* the download itself, after the cache has been consulted
Fetch(files, body, hash, f) ==
    IF "get" \in f THEN [res |-> "error", path |-> NoPath, cache |-> files]
    ELSE SaveFlist(files, body, f)

\* MetadataDbMgr::download_flist: hash is the text of <url>.md5, body the
\* content served at <url>
DownloadFlist(files, hash, body, f) ==
    IF "md5" \in f
    THEN [res |-> "error", path |-> NoPath, cache |-> files, fetched |-> FALSE]
    ELSE IF hash \in DOMAIN files /\ "open" \in f
    THEN [res |-> "error", path |-> NoPath, cache |-> files, fetched |-> FALSE]
    ELSE IF hash \in DOMAIN files /\ CompareMd5(hash, files[hash])
    THEN [res |-> "ok", path |-> <<"flist", hash>>, cache |-> files, fetched |-> FALSE]
    ELSE Fetch(files, body, hash, f) @@ [fetched |-> "get" \notin f]

DownloadFaults == {{}, {"md5"}, {"open"}, {"get"}, {"tempfile"}, {"rename"}}

DownloadStep ==
    \E hash \in Digests, body \in Contents, f \in DownloadFaults :
        LET r == DownloadFlist(cache, hash, body, f)
        IN /\ cache' = r.cache
           /\ last' = [op |-> "download_flist", hash |-> hash, body |-> body,
                       res |-> r.res, path |-> r.path, fetched |-> r.fetched,
                       failed |-> f # {}]
           /\ UNCHANGED <<storage, table, dirs, alive>>

\* a file of the cache is removed behind the back of the daemon
Evict ==
    \E name \in DOMAIN cache :
        /\ cache' = [x \in DOMAIN cache \ {name} |-> cache[x]]
        /\ last' = FlistCall("evict", name, "ok", NoPath, {}, FALSE)
        /\ UNCHANGED <<storage, table, dirs, alive>>

\* an empty cache, or one file under some name: intact or damaged
InitDownload ==
    /\ build = "release"
    /\ devtype = [d \in Devices |-> "SSD"]
    /\ devsize = [d \in Devices |-> DeviceSize(d)]
    /\ mounted = [d \in Devices |-> FALSE]
    /\ vols = [d \in Devices |-> NoVols]
    /\ disks = [d \in Devices |-> NoDisks]
    /\ cursor = 1
    /\ ssds = <<>>
    /\ hdds = <<>>
    /\ ssd_size = 0
    /\ hdd_size = 0
    /\ allocated = {}
    /\ inflight = NoCall
    /\ HostIdle
    /\ table = <<PoolMount>>
    /\ dirs = {}
    /\ alive = {}
    /\ \/ cache = <<>>
       \/ \E name \in Digests, c \in Contents : cache = WithFile(<<>>, name, c)
    /\ last = NoFlistCall

NextDownload ==
    \/ DownloadStep
    \/ Evict

SpecDownload == InitDownload /\ [][NextDownload]_vars

\* C19: a download whose body hashes to another value than the one the
\* .md5 sidecar advertises fails and leaves the cache as it was; when the
\* body hashes to the advertised value, a successful download leaves a
\* file named that value in the cache
C19_MismatchFailsMatchIsCached ==
    [][(last'.op = "download_flist" /\ last'.fetched)
       => /\ Md5(last'.body) # last'.hash => last'.res = "error" /\ cache' = cache
          /\ (Md5(last'.body) = last'.hash /\ last'.res = "ok")
                => last'.hash \in DOMAIN cache']_vars

(* ---------------------- flist daemon: mount names --------------------- *)
\* a name is the sequence of the pieces between its separators: "../evil"
\* is <<"..", "evil">>, "/a" is <<"", "a">>, "a/" is <<"a", "">>
MaxSegments == 3
Segments == {"a", "evil", "..", ".", "", "mountpoint"}
MountNames == UNION {[1 .. n -> Segments] : n \in 1 .. MaxSegments}

\* the root directory, and the mountpoint directory of the daemon
RootDir == <<"/">>
MOUNTPOINT == <<"/", "mountpoint">>

\* Path::is_absolute of a name
IsAbsolute(name) == Len(name) > 1 /\ name[1] = ""

\* Path::components below a prefix: empty pieces and "." are passed over
RECURSIVE Components(_)
Components(name) ==
    IF name = <<>> THEN <<>>
    ELSE IF Head(name) \in {"", "."} THEN Components(Tail(name))
    ELSE <<Head(name)>> \o Components(Tail(name))

\* Path::join: an absolute name replaces the base
Join(base, name) ==
    IF IsAbsolute(name) THEN RootDir \o Components(name)
    ELSE base \o Components(name)

\* Path::parent: the path without its last component, none for the root
Parent(path) ==
    IF Len(path) <= 1 THEN [some |-> FALSE, path |-> <<>>]
    ELSE [some |-> TRUE, path |-> SubSeq(path, 1, Len(path) - 1)]

\* MountManager::mountpath
Mountpath(name) ==
    LET mountpath == Join(MOUNTPOINT, name)
    IN IF Parent(mountpath) # [some |-> TRUE, path |-> MOUNTPOINT]
       THEN [res |-> "error", path |-> <<>>]
       ELSE [res |-> "ok", path |-> mountpath]

\* the directory a path names once the kernel has followed its ".."
RECURSIVE Resolve(_)
Resolve(path) ==
    IF Len(path) <= 1 THEN path
    ELSE LET dir == Resolve(SubSeq(path, 1, Len(path) - 1))
         IN IF path[Len(path)] = ".."
            THEN IF Len(dir) <= 1 THEN dir ELSE SubSeq(dir, 1, Len(dir) - 1)
            ELSE Append(dir, path[Len(path)])

DirectChild(path, dir) ==
    Len(path) = Len(dir) + 1 /\ SubSeq(path, 1, Len(dir)) = dir

\* a caller holds a name
InitPath ==
    /\ build = "release"
    /\ devtype = [d \in Devices |-> "SSD"]
    /\ devsize = [d \in Devices |-> DeviceSize(d)]
    /\ mounted = [d \in Devices |-> FALSE]
    /\ vols = [d \in Devices |-> NoVols]
    /\ disks = [d \in Devices |-> NoDisks]
    /\ cursor = 1
    /\ ssds = <<>>
    /\ hdds = <<>>
    /\ ssd_size = 0
    /\ hdd_size = 0
    /\ allocated = {}
    /\ inflight = NoCall
    /\ HostIdle
    /\ table = <<PoolMount>>
    /\ dirs = {}
    /\ alive = {}
    /\ cache = <<>>
    /\ \E name \in MountNames : last = FlistCall("caller", name, "ok", NoPath, {}, FALSE)

MountpathStep ==
    /\ last.op = "caller"
    /\ LET r == Mountpath(last.name)
       IN last' = FlistCall("mountpath", last.name, r.res, r.path, {}, FALSE)
    /\ UNCHANGED <<storage, flist>>

NextPath == MountpathStep

SpecPath == InitPath /\ [][NextPath]_vars

\* C20: whenever mountpath accepts a name, mountpoint/name is a direct child
\* of the mountpoint directory: no accepted name resolves to the mountpoint
\* directory itself or to a place outside it
C20_AcceptedNameIsDirectChild ==
    (last.op = "mountpath" /\ last.res = "ok")
        => DirectChild(Resolve(last.path), MOUNTPOINT)

(* ---------------------- pool manager: get ----------------------------- *)
\* one option of a mount line: a flag (rw) or a key with a value (subvol=/)
Flag(key) == [key |-> key, val |-> <<>>]
KeyVal(key, val) == [key |-> key, val |-> <<val>>]

\* Mount::option: None, Some(None) or Some(Some(v)), from the first option
\* with the key
MountOption(m, key) ==
    LET at == {i \in 1 .. Len(m.options) : m.options[i].key = key}
    IN IF at = {} THEN [some |-> FALSE, val |-> <<>>]
       ELSE [some |-> TRUE, val |-> m.options[Min(at)].val]

\* the path of device d, and the lines of /proc/mounts a device can have:
\* the whole filesystem at /mnt/<label>, one subvolume elsewhere
DevPath(d) == <<"dev", d>>
RootLine(d) ==
    [source |-> DevPath(d), target |-> <<"mnt", d>>, filesystem |-> "btrfs",
     options |-> <<Flag("rw"), KeyVal("subvolid", "5"), KeyVal("subvol", "/")>>]
SubvolLine(d) ==
    [source |-> DevPath(d), target |-> <<"var", d>>, filesystem |-> "btrfs",
     options |-> <<Flag("rw"), KeyVal("subvolid", "256"), KeyVal("subvol", "/zos-cache")>>]
OtherLine(d) ==
    [source |-> DevPath(d), target |-> <<"data", d>>, filesystem |-> "ext4",
     options |-> <<Flag("rw")>>]

\* storage::mountinfo: the lines whose source is this one, in table order
Mountinfo(t, source) == SelectSeq(t, LAMBDA m : m.source = source)

\* a filter that takes every mount of the device
IsAnyMount(m) == TRUE

\* the filter of BtrfsPool::with
IsRootMount(m) == MountOption(m, "subvol") = [some |-> TRUE, val |-> <<"/">>]

\* BtrfsPool::with: the pool over a device that reports dev
BtrfsPoolWith(dev, d, t, f) ==
    IF dev.filesystem = "none" \/ ~dev.label
    THEN [res |-> "InvalidFilesystem", target |-> <<>>]
    ELSE IF "read" \in f THEN [res |-> "error", target |-> <<>>]
    ELSE LET mnt == SelectSeq(Mountinfo(t, DevPath(d)), IsRootMount)
         IN IF mnt # <<>> THEN [res |-> "Up", target |-> mnt[1].target]
            ELSE [res |-> "Down", target |-> <<>>]

\* DeviceManager::format as the test manager does it: the device comes back
\* with the filesystem and a fresh label
Format(dev, filesystem, force) == [filesystem |-> filesystem, label |-> TRUE]

\* a manager that also formats a btrfs device that has lost its label
BtrfsManagerGetRelabels(dev, d, t, f) ==
    IF dev.filesystem = "none" \/ (dev.filesystem = "btrfs" /\ ~dev.label)
    THEN IF "format" \in f
         THEN [res |-> "error", target |-> <<>>, device |-> dev,
               formats |-> {[device |-> d, force |-> FALSE]}]
         ELSE BtrfsPoolWith(Format(dev, "btrfs", FALSE), d, t, f)
                @@ [device |-> Format(dev, "btrfs", FALSE),
                    formats |-> {[device |-> d, force |-> FALSE]}]
    ELSE IF dev.filesystem = "btrfs"
    THEN BtrfsPoolWith(dev, d, t, f) @@ [device |-> dev, formats |-> {}]
    ELSE [res |-> "InvalidFilesystem", target |-> <<>>, device |-> dev, formats |-> {}]

\* BtrfsManager::get
BtrfsManagerGet(dev, d, t, f) ==
    IF dev.filesystem = "none"
    THEN IF "format" \in f
         THEN [res |-> "error", target |-> <<>>, device |-> dev,
               formats |-> {[device |-> d, force |-> FALSE]}]
         ELSE BtrfsPoolWith(Format(dev, "btrfs", FALSE), d, t, f)
                @@ [device |-> Format(dev, "btrfs", FALSE),
                    formats |-> {[device |-> d, force |-> FALSE]}]
    ELSE IF dev.filesystem = "btrfs"
    THEN IF dev.label THEN BtrfsPoolWith(dev, d, t, f) @@ [device |-> dev, formats |-> {}]
         ELSE [res |-> "InvalidLabel", target |-> <<>>, device |-> dev, formats |-> {}]
    ELSE [res |-> "InvalidFilesystem", target |-> <<>>, device |-> dev, formats |-> {}]

GetFaults == {{}, {"format"}, {"read"}}

GetStep ==
    \E d \in Devices, f \in GetFaults :
        LET r == BtrfsManagerGet(inventory[d], d, table, f)
        IN /\ inventory' = [inventory EXCEPT ![d] = r.device]
           /\ last' = [op |-> "get", dev |-> d, res |-> r.res, target |-> r.target,
                       formats |-> r.formats, failed |-> f # {}]
           /\ UNCHANGED <<build, devtype, devsize, mounted, vols, disks, cursor, ssds, hdds,
                          totals, allocated, inflight, flist, store, probes, waiting>>

\* someone mounts or unmounts the whole filesystem of a labelled btrfs device
RemountStep ==
    \E d \in Devices :
        /\ inventory[d] = [filesystem |-> "btrfs", label |-> TRUE]
        /\ table' = IF \E i \in 1 .. Len(table) : table[i] = RootLine(d)
                    THEN SelectSeq(table, LAMBDA m : m # RootLine(d))
                    ELSE Append(table, RootLine(d))
        /\ last' = [op |-> "remount", dev |-> d, res |-> "ok", target |-> <<>>,
                    formats |-> {}, failed |-> FALSE]
        /\ UNCHANGED <<storage, dirs, cache, alive>>

\* what a device can look like when the node boots
DeviceStarts ==
    {[filesystem |-> "none", label |-> FALSE, lines |-> <<>>]}
        \cup {[filesystem |-> "ext4", label |-> FALSE, lines |-> l] : l \in {<<>>, <<"other">>}}
        \cup {[filesystem |-> "btrfs", label |-> b, lines |-> l] :
                b \in BOOLEAN,
                l \in {<<>>, <<"root">>, <<"subvol">>, <<"subvol", "root">>}}

LineOf(kind, d) ==
    IF kind = "root" THEN RootLine(d)
    ELSE IF kind = "subvol" THEN SubvolLine(d)
    ELSE OtherLine(d)

RECURSIVE DeviceLines(_, _)
DeviceLines(st, d) ==
    IF d = 0 THEN <<>>
    ELSE DeviceLines(st, d - 1)
            \o [i \in 1 .. Len(st[d].lines) |-> LineOf(st[d].lines[i], d)]

InitGet ==
    /\ build = "release"
    /\ devtype = [d \in Devices |-> "SSD"]
    /\ devsize = [d \in Devices |-> DeviceSize(d)]
    /\ mounted = [d \in Devices |-> FALSE]
    /\ vols = [d \in Devices |-> NoVols]
    /\ disks = [d \in Devices |-> NoDisks]
    /\ cursor = 1
    /\ ssds = <<>>
    /\ hdds = <<>>
    /\ ssd_size = 0
    /\ hdd_size = 0
    /\ allocated = {}
    /\ inflight = NoCall
    /\ \E st \in [Devices -> DeviceStarts] :
          /\ inventory = [d \in Devices |-> [filesystem |-> st[d].filesystem,
                                             label |-> st[d].label]]
          /\ table = DeviceLines(st, NumDevices)
    /\ store = [available |-> TRUE, files |-> [d \in Devices |-> "none"]]
    /\ probes = [d \in Devices |-> [stored |-> 0, lost |-> 0]]
    /\ waiting = NoWait
    /\ dirs = {}
    /\ cache = <<>>
    /\ alive = {}
    /\ last = [op |-> "boot", dev |-> 0, res |-> "ok", target |-> <<>>,
               formats |-> {}, failed |-> FALSE]

NextGet ==
    \/ GetStep
    \/ RemountStep

SpecGet == InitGet /\ [][NextGet]_vars

(* ---------------------- properties of get ----------------------------- *)
\* the lines of the table that mount the whole filesystem of device d
RootMountsOf(t, d) ==
    {i \in 1 .. Len(t) :
        /\ t[i].source = DevPath(d)
        /\ \E j \in 1 .. Len(t[i].options) : t[i].options[j] = KeyVal("subvol", "/")}

Got == last'.op = "get"

\* C21: a pool that get returns is Up, and bound to the target of an existing
\* mount, exactly when the table has a mount of the device with subvol=/,
\* and Down otherwise; get leaves the mount table as it is
C21_GetFollowsMountTable ==
    [][Got =>
        /\ table' = table
        /\ last'.res = "Up" =>
              /\ RootMountsOf(table, last'.dev) # {}
              /\ \E i \in RootMountsOf(table, last'.dev) : last'.target = table[i].target
        /\ last'.res = "Down" => RootMountsOf(table, last'.dev) = {}]_vars

\* an Up pool for a device that is also mounted by a subvolume, and a Down
\* pool for a device that is mounted by a subvolume only
C21_Witness ==
    /\ last.op = "get"
    /\ last.res = "Down"
    /\ \E i \in 1 .. Len(table) : table[i] = SubvolLine(last.dev)
    /\ \E d \in Devices : RootMountsOf(table, d) # {}

MaxProbes == 2

\* what a file of the cache can hold
NoFile == "none"
Texts == {"ssd", "hdd", "SSD", "junk"}

\* impl Display for DeviceType
Display(t) == IF t = "SSD" THEN "ssd" ELSE "hdd"

\* str::to_lowercase
ToLowercase(text) == IF text = "SSD" THEN "ssd" ELSE text

\* impl FromStr for DeviceType
FromStr(text) ==
    IF ToLowercase(text) = "ssd" THEN [ok |-> TRUE, t |-> "SSD"]
    ELSE IF ToLowercase(text) = "hdd" THEN [ok |-> TRUE, t |-> "HDD"]
    ELSE [ok |-> FALSE, t |-> "none"]

\* cache::volatile: the tmpfs of the cache is found mounted, or is mounted
\* now.  Faults: "table" (/proc/mounts), "mkdir", "mount"
Volatile(st, f) ==
    IF "table" \in f THEN [ok |-> FALSE, store |-> st]
    ELSE IF st.available THEN [ok |-> TRUE, store |-> st]
    ELSE IF "mkdir" \in f \/ "mount" \in f THEN [ok |-> FALSE, store |-> st]
    ELSE [ok |-> TRUE, store |-> [available |-> TRUE, files |-> [d \in Devices |-> NoFile]]]

\* Store::new
StoreNew(st, f) == Volatile(st, f)

\* Store::get: Ok(None), Ok(Some(t)) or an error
StoreGet(st, d, f) ==
    IF "read" \in f THEN [ok |-> FALSE, some |-> FALSE, t |-> "none"]
    ELSE IF st.files[d] = NoFile THEN [ok |-> TRUE, some |-> FALSE, t |-> "none"]
    ELSE [ok |-> FromStr(st.files[d]).ok, some |-> TRUE, t |-> FromStr(st.files[d]).t]

\* Store::set
StoreSet(st, d, t, f) ==
    IF "write" \in f THEN [ok |-> FALSE, store |-> st]
    ELSE [ok |-> TRUE, store |-> [st EXCEPT !.files[d] = Display(t)]]

\* a get_type that does not consult the cache
GetTypeProbing(st, d, typ, f) ==
    IF "seektime" \in f
    THEN [res |-> "error", t |-> "none", probed |-> TRUE, stored |-> FALSE, store |-> st]
    ELSE LET w == StoreSet(st, d, typ, f)
         IN IF ~w.ok
            THEN [res |-> "error", t |-> "none", probed |-> TRUE, stored |-> FALSE, store |-> st]
            ELSE [res |-> "ok", t |-> typ, probed |-> TRUE, stored |-> TRUE, store |-> w.store]

\* StorageManager::get_type for device d, which seektime finds to be typ
GetType(st, d, typ, f) ==
    LET c == StoreGet(st, d, f)
    IN IF ~c.ok
       THEN [res |-> "error", t |-> "none", probed |-> FALSE, stored |-> FALSE, store |-> st]
       ELSE IF c.some
       THEN [res |-> "ok", t |-> c.t, probed |-> FALSE, stored |-> FALSE, store |-> st]
       ELSE IF "seektime" \in f
       THEN [res |-> "error", t |-> "none", probed |-> TRUE, stored |-> FALSE, store |-> st]
       ELSE LET w == StoreSet(st, d, typ, f)
            IN IF ~w.ok
               THEN [res |-> "error", t |-> "none", probed |-> TRUE, stored |-> FALSE,
                     store |-> st]
               ELSE [res |-> "ok", t |-> typ, probed |-> TRUE, stored |-> TRUE,
                     store |-> w.store]

TypeCall(op, d, res, t, probed, f) ==
    [op |-> op, dev |-> d, res |-> res, type |-> t, probed |-> probed, faults |-> f]

NewFaults == {{}, {"table"}, {"mkdir"}, {"mount"}, {"devices"}}

\* StorageManager::new up to the loop of initialize: cursor 0 says that no
\* manager is running
NewStep ==
    \E f \in NewFaults :
        LET s == StoreNew(store, f)
            ok == s.ok /\ "devices" \notin f
        IN /\ cursor = 0
           /\ store' = s.store
           /\ cursor' = IF ok THEN 1 ELSE 0
           /\ last' = TypeCall("new", 0, IF ok THEN "ok" ELSE "error", "none", FALSE, f)
           /\ UNCHANGED <<build, devtype, devsize, mounted, vols, disks, ssds, hdds, totals,
                          allocated, inflight, flist, inventory, probes, waiting>>

GetTypeFaults == {{}, {"read"}, {"seektime"}, {"write"}}

\* the get_type call of one turn of the loop of initialize
GetTypeStep ==
    \E f \in GetTypeFaults :
        LET d == cursor
            r == GetType(store, d, devtype[d], f)
        IN /\ cursor \in Devices
           /\ r.probed => probes[d].stored + probes[d].lost < MaxProbes
           /\ store' = r.store
           /\ probes' = IF ~r.probed THEN probes
                        ELSE IF r.stored THEN [probes EXCEPT ![d].stored = @ + 1]
                        ELSE [probes EXCEPT ![d].lost = @ + 1]
           /\ cursor' = cursor + 1
           /\ last' = TypeCall("get_type", d, r.res, r.t, r.probed, f)
           /\ UNCHANGED <<build, devtype, devsize, mounted, vols, disks, ssds, hdds, totals,
                          allocated, inflight, flist, inventory, waiting>>

\* the manager process ends; the tmpfs of the cache stays
ExitStep ==
    /\ cursor # 0
    /\ cursor' = 0
    /\ last' = TypeCall("exit", 0, "ok", "none", FALSE, {})
    /\ UNCHANGED <<build, devtype, devsize, mounted, vols, disks, ssds, hdds, totals,
                   allocated, inflight, flist, host>>

NoProbes == [d \in Devices |-> [stored |-> 0, lost |-> 0]]

\* the node reboots: the tmpfs of the cache is gone
RebootStep ==
    /\ store.available
    /\ cursor' = 0
    /\ store' = [available |-> FALSE, files |-> [d \in Devices |-> NoFile]]
    /\ probes' = NoProbes
    /\ last' = TypeCall("reboot", 0, "ok", "none", FALSE, {})
    /\ UNCHANGED <<build, devtype, devsize, mounted, vols, disks, ssds, hdds, totals,
                   allocated, inflight, flist, inventory, waiting>>

\* a node before the manager starts: the cache is not mounted, or is mounted
\* and empty but for the file of the first device
InitType ==
    /\ build = "release"
    /\ \E k \in 0 .. NumDevices : devtype = [d \in Devices |-> IF d <= k THEN "SSD" ELSE "HDD"]
    /\ devsize = [d \in Devices |-> DeviceSize(d)]
    /\ mounted = [d \in Devices |-> FALSE]
    /\ vols = [d \in Devices |-> NoVols]
    /\ disks = [d \in Devices |-> NoDisks]
    /\ cursor = 0
    /\ ssds = <<>>
    /\ hdds = <<>>
    /\ ssd_size = 0
    /\ hdd_size = 0
    /\ allocated = {}
    /\ inflight = NoCall
    /\ inventory = [d \in Devices |-> [filesystem |-> "btrfs", label |-> TRUE]]
    /\ \/ store = [available |-> FALSE, files |-> [d \in Devices |-> NoFile]]
       \/ \E text \in Texts \cup {NoFile} :
             store = [available |-> TRUE,
                      files |-> [d \in Devices |-> IF d = 1 THEN text ELSE NoFile]]
    /\ probes = NoProbes
    /\ waiting = NoWait
    /\ table = <<>>
    /\ dirs = {}
    /\ cache = <<>>
    /\ alive = {}
    /\ last = TypeCall("boot", 0, "ok", "none", FALSE, {})

NextType ==
    \/ NewStep
    \/ GetTypeStep
    \/ ExitStep
    \/ RebootStep

SpecType == InitType /\ [][NextType]_vars

C24_CacheFailureIsNotFatal ==
    [][(last'.op = "new" /\ last'.faults \in {{"mkdir"}, {"mount"}})
       => last'.res = "ok"]_vars

(* ---------------------- disks: create and expand ---------------------- *)
\* a disk_expand without the comparison of the sizes
DiskExpandUnchecked(pools, mnt, vs, ds, name, size, f) ==
    LET found == DiskLookup(pools, vs, ds, name, f)
    IN IF found.res # "ok" THEN Outcome("not_found", 0, "none", {}, pools, mnt, vs, ds)
       ELSE LET d == pools[found.idx].device
                m == Mkdisk(ds[d][name], size, f)
            IN Outcome(IF m.ok THEN "ok" ELSE "error", d, "existing", {}, pools, mnt, vs,
                       [ds EXCEPT ![d][name] = m.len])

\* StorageManager::disk_expand
DiskExpandCall(pools, mnt, vs, ds, name, size, f) ==
    LET found == DiskLookup(pools, vs, ds, name, f)
    IN IF found.res # "ok" THEN Outcome("not_found", 0, "none", {}, pools, mnt, vs, ds)
       ELSE LET d == pools[found.idx].device
                m == Mkdisk(ds[d][name], size, f)
            IN IF size < ds[d][name]
               THEN Outcome("invalid_size", d, "existing", {}, pools, mnt, vs, ds)
               ELSE IF size = ds[d][name]
               THEN Outcome("ok", d, "existing", {}, pools, mnt, vs, ds)
               ELSE Outcome(IF m.ok THEN "ok" ELSE "error", d, "grown", {}, pools, mnt, vs,
                            [ds EXCEPT ![d][name] = m.len])

DiskExpand(name, size, f) ==
    /\ Ready
    /\ Apply("disk_expand", name, size, AllOk, f,
             DiskExpandCall(ssds, mounted, vols, disks, name, size, f))

DiskFaults ==
    {NoFault} \cup FaultsOn({"list"}, UpDevices)
        \cup {[kind |-> k, dev |-> 0] : k \in {"create", "open", "fallocate"}}

DiskCreateStep ==
    \E n \in DiskNames, s \in ReqSizes :
        \E o \in UpOraclesFor(s), f \in DiskFaults : DiskCreate(n, s, o, f)

DiskExpandStep ==
    \E n \in DiskNames, s \in ReqSizes, f \in DiskFaults : DiskExpand(n, s, f)

\* a node whose disks are all SSDs, nothing mounted, no volumes
InitDisk == Init /\ build = "release"

NextDisk ==
    \/ InitStep
    \/ Restart
    \/ DiskCreateStep
    \/ DiskExpandStep

SpecDisk == InitDisk /\ [][NextDisk]_vars

(* ---------------------- properties of the disks ----------------------- *)
\* no device holds a file of this name
NewDisk(name) == \A d \in Devices : disks[d][name] = Absent

\* C25: after a disk_create(name, size) that succeeded for a name no pool
\* had a file of, disk_lookup(name) finds the file in the vdisks volume of
\* the pool the call chose, and the length of the file is size
C25_CreatedDiskHasSize ==
    [][(last'.op = "disk_create" /\ last'.res = "ok" /\ NewDisk(last'.name)) =>
          LET l == DiskLookupCall(ssds', mounted', vols', disks', last'.name, NoFault)
          IN /\ l.res = "ok"
             /\ l.dev = last'.dev
             /\ vols'[l.dev][VDISKS_VOLUME] # Absent
             /\ disks'[l.dev][last'.name] = last'.size]_vars

\* a disk of the largest ordinary size was created on a pool that the call
\* brought up
C25_Witness ==
    /\ last.op = "disk_create"
    /\ last.res = "ok"
    /\ last.sel = "down"
    /\ last.size = MaxReq
    /\ disks[last.dev][last.name] = MaxReq

\* C26: disk_create(name, 0) for a name without a file fails with
\* InvalidSize, and no pool is brought up, no volume created and no file
\* written
C26_ZeroSizeIsRefusedFirst ==
    [][(last'.op = "disk_create" /\ last'.size = 0 /\ NewDisk(last'.name)) =>
          /\ last'.res = "invalid_size"
          /\ UNCHANGED <<ssds, kernel>>]_vars

\* C27: a disk_expand to a size below the length of the file fails with
\* InvalidSize and leaves the files as they are; after a disk_expand that
\* succeeded the length of the file is size, and not below what it was
C27_ExpandNeverShrinks ==
    [][(last'.op = "disk_expand" /\ last'.dev # 0) =>
          /\ last'.size < disks[last'.dev][last'.name] =>
                last'.res = "invalid_size" /\ disks' = disks
          /\ last'.res = "ok" =>
                /\ disks'[last'.dev][last'.name] = last'.size
                /\ disks'[last'.dev][last'.name] >= disks[last'.dev][last'.name]
          /\ disks'[last'.dev][last'.name] >= disks[last'.dev][last'.name]]_vars

\* a disk was grown to the largest ordinary size
C27_Witness ==
    /\ last.op = "disk_expand"
    /\ last.res = "ok"
    /\ last.sel = "grown"
    /\ last.size = MaxReq
    /\ disks[last.dev][last.name] = MaxReq

(* ---------------------- /proc/mounts: the parser ---------------------- *)
\* the longest table the parser is run on
MaxLines == 2

DigitChars == <<"0", "1", "2", "3", "4", "5", "6", "7", "8", "9">>
IsDigit(c) == \E i \in 1 .. 10 : DigitChars[i] = c
DigitValue(c) == (CHOOSE i \in 1 .. 10 : DigitChars[i] = c) - 1

RECURSIVE Decimal(_)
Decimal(w) ==
    IF w = <<>> THEN 0
    ELSE 10 * Decimal(SubSeq(w, 1, Len(w) - 1)) + DigitValue(w[Len(w)])

\* the largest u8
U8Max == 255

\* str::parse::<u8>() of a word, given character by character: an optional
\* + sign, then digits, and a value that fits
ParseU8(w) ==
    LET body == IF w # <<>> /\ w[1] = "+" THEN Tail(w) ELSE w
    IN IF body = <<>> \/ \E i \in 1 .. Len(body) : ~IsDigit(body[i])
       THEN [ok |-> FALSE, val |-> 0]
       ELSE IF Decimal(body) > U8Max THEN [ok |-> FALSE, val |-> 0]
       ELSE [ok |-> TRUE, val |-> Decimal(body)]

\* the words a dump or pass field is drawn from
NumWords == {<<"0">>, <<"7">>, <<"+", "1">>, <<"2", "5", "6">>, <<"x">>}

\* a line as split_whitespace gives it: source, target, filesystem and
\* options, then what follows them
FirstFields == <<"proc", "/proc", "proc", "rw,nosuid">>
TableLines ==
    {FirstFields \o <<d, p>> : d \in NumWords, p \in NumWords}
        \cup {<<>>, FirstFields \o <<<<"0">>>>, FirstFields \o <<<<"0">>, <<"0">>, <<"0">>>>}

\* parser_reader, from the first line on: the mounts it has pushed, or the
\* error a `?` returns
RECURSIVE ParserReader(_, _)
ParserReader(lines, mounts) ==
    IF lines = <<>> THEN [res |-> "ok", mounts |-> mounts]
    ELSE LET parts == Head(lines)
         IN IF Len(parts) # 6 THEN ParserReader(Tail(lines), mounts)
            ELSE IF ~ParseU8(parts[5]).ok \/ ~ParseU8(parts[6]).ok
            THEN [res |-> "error", mounts |-> <<>>]
            ELSE ParserReader(Tail(lines),
                              Append(mounts,
                                     [source |-> parts[1], target |-> parts[2],
                                      filesystem |-> parts[3], options |-> parts[4],
                                      dump |-> ParseU8(parts[5]).val,
                                      pass |-> ParseU8(parts[6]).val]))

\* storage::mounts
Mounts(lines, unreadable) ==
    IF unreadable THEN [res |-> "error", mounts |-> <<>>]
    ELSE ParserReader(lines, <<>>)

ParseCall(op, res, mounts, unreadable) ==
    [op |-> op, res |-> res, mounts |-> mounts, unreadable |-> unreadable]

MountsStep ==
    \E unreadable \in BOOLEAN :
        LET r == Mounts(table, unreadable)
        IN /\ last' = ParseCall("mounts", r.res, r.mounts, unreadable)
           /\ UNCHANGED <<storage, flist>>

\* the kernel adds a line to the table
LineAppears ==
    \E l \in TableLines :
        /\ Len(table) < MaxLines
        /\ table' = Append(table, l)
        /\ last' = ParseCall("line", "ok", <<>>, FALSE)
        /\ UNCHANGED <<storage, dirs, cache, alive>>

InitParse ==
    /\ build = "release"
    /\ devtype = [d \in Devices |-> "SSD"]
    /\ devsize = [d \in Devices |-> DeviceSize(d)]
    /\ mounted = [d \in Devices |-> FALSE]
    /\ vols = [d \in Devices |-> NoVols]
    /\ disks = [d \in Devices |-> NoDisks]
    /\ cursor = 1
    /\ ssds = <<>>
    /\ hdds = <<>>
    /\ ssd_size = 0
    /\ hdd_size = 0
    /\ allocated = {}
    /\ inflight = NoCall
    /\ HostIdle
    /\ table = <<>>
    /\ dirs = {}
    /\ cache = <<>>
    /\ alive = {}
    /\ last = ParseCall("boot", "ok", <<>>, FALSE)

NextParse ==
    \/ MountsStep
    \/ LineAppears

SpecParse == InitParse /\ [][NextParse]_vars

(* ---------------------- properties of the parser ---------------------- *)
\* a field of digits
IsNumeric(w) == w # <<>> /\ \A i \in 1 .. Len(w) : IsDigit(w[i])

\* six fields, the last two of them numbers
WellFormed(l) == Len(l) = 6 /\ IsNumeric(l[5]) /\ IsNumeric(l[6])

\* C28: reading a table that can be opened never fails: it returns one
\* mount for every line of six fields with a numeric dump and a numeric
\* pass, in the order of the table, and passes over every other line
C28_MalformedLinesAreSkipped ==
    [][(last'.op = "mounts" /\ ~last'.unreadable) =>
          /\ last'.res = "ok"
          /\ Len(last'.mounts) = Len(SelectSeq(table, WellFormed))
          /\ \A i \in 1 .. Len(last'.mounts) :
                LET l == SelectSeq(table, WellFormed)[i]
                IN /\ last'.mounts[i].source = l[1]
                   /\ last'.mounts[i].target = l[2]
                   /\ last'.mounts[i].filesystem = l[3]
                   /\ last'.mounts[i].options = l[4]]_vars

(* ---------------------- Usage::enough_for ----------------------------- *)
Units == 0 .. UnitMax

\* Usage{size, used}.enough_for(s) as the build computes it: the sum of
\* two Units panics in a build with overflow checks and wraps without
UsageEnoughFor(bld, size, used, s) ==
    IF bld = "debug" /\ used + s > UnitMax THEN "panic"
    ELSE IF EnoughFor(used, size, s) THEN "true"
    ELSE "false"

UsageCall(op, size, used, s, res) ==
    [op |-> op, size |-> size, used |-> used, s |-> s, res |-> res]

EnoughForStep ==
    \E s \in Units :
        /\ last.op = "usage"
        /\ last' = UsageCall("enough_for", last.size, last.used, s,
                             UsageEnoughFor(build, last.size, last.used, s))
        /\ UNCHANGED <<storage, flist>>

\* a pool of any size with any part of it used
InitUsage ==
    /\ build \in Builds
    /\ devtype = [d \in Devices |-> "SSD"]
    /\ devsize = [d \in Devices |-> DeviceSize(d)]
    /\ mounted = [d \in Devices |-> FALSE]
    /\ vols = [d \in Devices |-> NoVols]
    /\ disks = [d \in Devices |-> NoDisks]
    /\ cursor = 1
    /\ ssds = <<>>
    /\ hdds = <<>>
    /\ ssd_size = 0
    /\ hdd_size = 0
    /\ allocated = {}
    /\ inflight = NoCall
    /\ HostIdle
    /\ table = <<>>
    /\ dirs = {}
    /\ cache = <<>>
    /\ alive = {}
    /\ \E size \in Units, used \in Units : last = UsageCall("usage", size, used, 0, "none")

NextUsage == EnoughForStep

SpecUsage == InitUsage /\ [][NextUsage]_vars

\* C29: for all used, size and s, enough_for(s) is true exactly when
\* used + s < size, and false when used + s = size
C29_EnoughForIsStrictSum ==
    [][last'.op = "enough_for" =>
          last'.res = IF last'.used + last'.s < last'.size THEN "true" ELSE "false"]_vars

(* ---------------------- wait_mountpoint ------------------------------- *)
\* the longest wait that is asked for, in polls
MaxWait == 3

WaitCall(op, path, n, res, polls, unreadable) ==
    [op |-> op, path |-> path, n |-> n, res |-> res, polls |-> polls,
     unreadable |-> unreadable]

\* MountManager::wait_mountpoint up to its first sleep: with seconds = 0
\* the loop is not entered
WaitStart ==
    \E n \in Names, seconds \in 0 .. MaxWait :
        /\ waiting = NoWait
        /\ waiting' = IF seconds > 0
                      THEN [path |-> NamePath(n), duration |-> seconds, polls |-> 0]
                      ELSE NoWait
        /\ last' = IF seconds > 0
                   THEN WaitCall("start", NamePath(n), seconds, "none", 0, FALSE)
                   ELSE WaitCall("wait_mountpoint", NamePath(n), seconds, "error", 0, FALSE)
        /\ UNCHANGED <<build, devtype, devsize, mounted, vols, disks, cursor, ssds, hdds,
                       totals, allocated, inflight, flist, inventory, store, probes>>

\* one turn of the loop: the sleep is over, is_mounted is asked, and the
\* loop returns, or goes to sleep again, or ends and bails
WaitPoll ==
    \E unreadable \in BOOLEAN :
        LET n == waiting.duration + waiting.polls
            polls == waiting.polls + 1
        IN /\ waiting # NoWait
           /\ IF MountManagerIsMounted(table, waiting.path, unreadable)
              THEN /\ waiting' = NoWait
                   /\ last' = WaitCall("wait_mountpoint", waiting.path, n, "ok", polls,
                                       unreadable)
              ELSE IF waiting.duration - 1 > 0
              THEN /\ waiting' = [waiting EXCEPT !.duration = @ - 1, !.polls = polls]
                   /\ last' = WaitCall("poll", waiting.path, n, "none", polls, unreadable)
              ELSE /\ waiting' = NoWait
                   /\ last' = WaitCall("wait_mountpoint", waiting.path, n, "error", polls,
                                       unreadable)
           /\ UNCHANGED <<build, devtype, devsize, mounted, vols, disks, cursor, ssds, hdds,
                          totals, allocated, inflight, flist, inventory, store, probes>>

\* the bind mount of a name shows up in the table
BindAppears ==
    \E n \in Names :
        /\ MountsAt(table, NamePath(n)) = {}
        /\ table' = Append(table, Mount(1, NamePath(n), G8UFS, NoPath))
        /\ last' = WaitCall("kernel", NamePath(n), 0, "none", 0, FALSE)
        /\ UNCHANGED <<storage, dirs, cache, alive>>

InitWait ==
    /\ build = "release"
    /\ devtype = [d \in Devices |-> "SSD"]
    /\ devsize = [d \in Devices |-> DeviceSize(d)]
    /\ mounted = [d \in Devices |-> FALSE]
    /\ vols = [d \in Devices |-> NoVols]
    /\ disks = [d \in Devices |-> NoDisks]
    /\ cursor = 1
    /\ ssds = <<>>
    /\ hdds = <<>>
    /\ ssd_size = 0
    /\ hdd_size = 0
    /\ allocated = {}
    /\ inflight = NoCall
    /\ HostIdle
    /\ table = <<PoolMount, Mount(1, RoDir(1), G8UFS, NoPath)>>
    /\ dirs = {RoDir(1)} \cup {NamePath(n) : n \in Names}
    /\ cache = <<>>
    /\ alive = {1}
    /\ last = WaitCall("boot", NoPath, 0, "none", 0, FALSE)

NextWait ==
    \/ WaitStart
    \/ WaitPoll
    \/ BindAppears

SpecWait == InitWait /\ [][NextWait]_vars

\* C30: a wait_mountpoint(path, n) makes at most n polls; a poll returns Ok
\* exactly when path is mounted at that poll, and the call fails only
\* after n polls, at none of which path was mounted
C30_WaitEndsAtFirstMountedPoll ==
    /\ [](waiting # NoWait => waiting.duration > 0 /\ waiting.polls + waiting.duration <= MaxWait)
    /\ [][(waiting # NoWait /\ last'.op \in {"poll", "wait_mountpoint"}) =>
             /\ last'.polls <= last'.n
             /\ (last'.op = "wait_mountpoint" /\ last'.res = "ok") =>
                   MountsAt(table, waiting.path) # {}
             /\ (MountsAt(table, waiting.path) # {} /\ ~last'.unreadable) =>
                   last'.op = "wait_mountpoint" /\ last'.res = "ok"
             /\ (last'.op = "wait_mountpoint" /\ last'.res = "error") =>
                   last'.polls = last'.n /\ MountsAt(table, waiting.path) = {}]_vars

(* ---------------------- device_allocate: exhaustion ------------------- *)
\* the HDD pools device_allocate can take for a request of min: Down, big
\* enough, without a zdb volume
Candidates(min) ==
    {i \in DownIdx(hdds) : /\ devsize[hdds[i].device] >= min
                           /\ vols[hdds[i].device][ZDB_VOLUME] = Absent}

\* C31: device_allocate returns NoDeviceLeft only when there is no Down HDD
\* pool of size >= min without a zdb volume, and when the up() of one
\* candidate fails it goes on to the others: the first candidate that can
\* be brought up is allocated
C31_TriesEveryCandidate ==
    [][last'.op = "device_allocate" =>
          LET able == {i \in Candidates(last'.size) :
                          /\ ~mounted[hdds[i].device]
                          /\ hdds[i].device \notin last'.failed}
          IN /\ last'.res = "no_device_left" => Candidates(last'.size) = {}
             /\ (~last'.faulted /\ able # {}) =>
                   /\ last'.res = "ok"
                   /\ last'.dev = hdds[Min(able)].device]_vars

(* ---------------------- flist daemon: exists -------------------------- *)
\* MetadataDbMgr::exists (flist/db.rs): Ok(true) when valid returns Ok,
\* the error of valid otherwise
MetadataDbMgrExists(t, ds, al, n, f) ==
    LET v == MetadataDbMgrValid(t, ds, al, NamePath(n), f)
    IN [res |-> IF v.kind = "Ok" THEN "true" ELSE "error", cmds |-> v.cmds, table |-> v.table]

ExistsStep ==
    \E n \in Names, f \in {{}, {"exec"}} :
        LET r == MetadataDbMgrExists(table, dirs, alive, n, f)
        IN /\ table' = r.table
           /\ last' = FlistCall("exists", n, r.res, NoPath, r.cmds, f # {})
           /\ UNCHANGED <<storage, dirs, cache, alive>>

NextExists ==
    \/ ExistsStep
    \/ UnmountStep
    \/ ProcessDies

SpecExists == InitFlist /\ [][NextExists]_vars

\* C32: exists(name) returns true exactly when something is mounted at
\* mountpoint/name, and false, not an error, when nothing is mounted there
C32_ExistsIffMounted ==
    [][(last'.op = "exists" /\ ~last'.failed) =>
          last'.res = IF MountsAt(table, NamePath(last'.name)) # {} THEN "true"
                      ELSE "false"]_vars

(* ---------------------- volumes and their quota ----------------------- *)
\* C33: a volume that volume_create returns carries a quota limit, also
\* when an earlier call created it and failed before the limit was set:
\* when the call created the volume the limit is the size of the call
C33_ReturnedVolumeHasQuota ==
    [][(last'.op = "volume_create" /\ last'.res = "ok") =>
          /\ vols'[last'.dev][last'.name] > NoLimit
          /\ last'.sel # "existing" => vols'[last'.dev][last'.name] = last'.size]_vars

(* ---------------------- the inventory of the manager ------------------ *)
\* a node that has run before, and every call that changes a pool, a
\* volume or a disk
InventoryFaults == {NoFault} \cup {[kind |-> k, dev |-> 0] : k \in {"create", "limit"}}

InventoryVolumeStep ==
    \E o \in UpOraclesFor(MaxReq), f \in InventoryFaults : VolumeCreate("v1", MaxReq, o, f)

InventoryDiskStep ==
    \E o \in UpOraclesFor(MaxReq), f \in InventoryFaults : DiskCreate("d1", MaxReq, o, f)

NextInventory ==
    \/ InitDeviceStep
    \/ Restart
    \/ DeviceAllocateStep
    \/ InventoryVolumeStep
    \/ InventoryDiskStep
    \/ NodeDeleteStep

SpecInventory == InitNode /\ [][NextInventory]_vars

\* the pools of both collections
Kept == ssds \o hdds

\* C34: once initialize has run, a pool of ssds or hdds that is Down holds
\* no volume, and so no disk and no allocated device: whatever exists on a
\* kept pool is on a pool that is Up
C34_DownPoolsHoldNothing ==
    Ready => \A i \in Indices(Kept) :
                Kept[i].state = "Down" =>
                    /\ vols[Kept[i].device] = NoVols
                    /\ disks[Kept[i].device] = NoDisks

\* after a restart the manager holds a pool that is Down next to pools
\* that are Up for a volume, for a disk and for an allocated device
C34_Witness ==
    /\ Ready
    /\ \E i \in Indices(Kept) : Kept[i].state = "Down"
    /\ \E i \in Indices(ssds) : ssds[i].state = "Up" /\ vols[ssds[i].device]["v1"] # Absent
    /\ \E i \in Indices(hdds) : hdds[i].state = "Up" /\ vols[hdds[i].device][ZDB_VOLUME] # Absent

\* C35: a device_allocate that returns an error leaves every HDD pool in
\* the state it was in, and a pool that device_allocate has brought Up
\* holds a zdb volume when the call returns
C35_FailedAllocateLeavesPools ==
    [][last'.op = "device_allocate" =>
          /\ last'.res # "ok" => hdds' = hdds
          /\ \A i \in Indices(hdds) :
                (hdds[i].state = "Down" /\ hdds'[i].state = "Up") =>
                    vols'[hdds[i].device][ZDB_VOLUME] # Absent]_vars

\* C36: a device that a turn of the loop of initialize has mounted is the
\* device of a pool the turn has kept in ssds or hdds: a pool that is
\* dropped for a failed validation is not left mounted by the manager
C36_DroppedPoolIsNotLeftMounted ==
    [][last'.op = "init" =>
          \A d \in Devices :
              (~mounted[d] /\ mounted'[d]) => d \in DevicesOf(ssds' \o hdds')]_vars

(* ---------------------- concurrent mounts and the sweep --------------- *)
\* a mount call that has its read-only base and has not composed the named
\* mount yet
MountCall(n, h) == [dir |-> "mount", idx |-> n, hash |-> h]

\* the line a bind mount of path adds to the table: the filesystem mounted
\* at path, or the filesystem the directory lies on
BindLine(t, path, target) ==
    IF MountsAt(t, path) = {} THEN Mount(0, target, "btrfs", NoPath)
    ELSE LET top == t[CHOOSE i \in MountsAt(t, path) : \A j \in MountsAt(t, path) : j <= i]
         IN Mount(top.source, target, top.filesystem, top.lower)

\* MountManager::mount_bind (flist/mount.rs).  f: "mkdir" (create_dir_all
\* fails), "mount" (the system call fails), "read" (no poll of
\* wait_mountpoint can read /proc/mounts)
MountManagerMountBind(t, ds, ro, mountpoint, f) ==
    IF "mkdir" \in f THEN [res |-> "error", table |-> t, dirs |-> ds]
    ELSE LET ds1 == ds \cup {mountpoint}
         IN IF "mount" \in f \/ (ro \notin ds /\ MountsAt(t, ro) = {})
            THEN [res |-> "false",
                  table |-> IF MountsAt(t, mountpoint) # {} THEN Umount(t, mountpoint) ELSE t,
                  dirs |-> ds1]
            ELSE LET t1 == Append(t, BindLine(t, ro, mountpoint))
                 IN [res |-> IF MountManagerIsMounted(t1, mountpoint, "read" \in f)
                             THEN "true" ELSE "error",
                     table |-> t1, dirs |-> ds1]

\* a mount(name, url) of a name that is not mounted, up to the return of
\* mount_ro
BeginMount ==
    \E n \in Names, h \in Hashes, f \in MountRoFaults :
        LET r == MountManagerMountRo(table, dirs, alive, h, f)
        IN /\ inflight = NoCall
           /\ MountsAt(table, NamePath(n)) = {}
           /\ table' = r.table
           /\ dirs' = r.dirs
           /\ alive' = r.alive
           /\ inflight' = IF r.res = "ok" THEN MountCall(n, h) ELSE NoCall
           /\ last' = FlistCall(IF r.res = "ok" THEN "mount_ro" ELSE "mount", n, r.res,
                                r.path, r.cmds, f # {})
           /\ UNCHANGED <<build, devtype, devsize, mounted, vols, disks, cursor, ssds, hdds,
                          totals, allocated, host, cache>>

BindFaults == {{}, {"mkdir"}, {"mount"}, {"read"}}

\* the rest of the mount in read-only mode: the bind mount of the base on
\* mountpoint/name, the sweep, and the return
FinishMount ==
    \E f \in BindFaults :
        LET n == inflight.idx
            b == MountManagerMountBind(table, dirs, RoDir(inflight.hash), NamePath(n), f)
            c == CleanUnusedMounts(b.table, b.dirs, [read |-> FALSE, busy |-> {}, kept |-> {}])
        IN /\ inflight.dir = "mount"
           /\ table' = c.table
           /\ dirs' = c.dirs
           /\ alive' = alive \ {b.table[i].source :
                                  i \in {j \in RoMounts(b.table) :
                                            b.table[j].target \notin Targets(c.table)}}
           /\ inflight' = NoCall
           /\ last' = FlistCall("mount", n,
                                IF b.res = "true" /\ c.res = "ok" THEN "ok" ELSE "error",
                                RoDir(inflight.hash), c.cmds, f # {})
           /\ UNCHANGED <<build, devtype, devsize, mounted, vols, disks, cursor, ssds, hdds,
                          totals, allocated, host, cache>>

NextRace ==
    \/ BeginMount
    \/ FinishMount
    \/ UnmountStep
    \/ CleanStep

SpecRace == InitFlist /\ [][NextRace]_vars

\* the base of the mount in flight is a mount of the table
BaseMounted(t, call) == \E i \in RoMounts(t) : t[i].target = RoDir(call.hash)

\* C37: while a mount is between its mount_ro and its composition, the
\* sweep of another call does not unmount the base the mount holds, and a
\* mount that returns success has its read-only base mounted
C37_InFlightBaseSurvives ==
    /\ [][(inflight.dir = "mount" /\ BaseMounted(table, inflight)
             /\ last'.op = "clean_unused_mounts") => BaseMounted(table', inflight)]_vars
    /\ [][(last'.op = "mount" /\ last'.res = "ok") =>
             \E i \in RoMounts(table') : table'[i].target = last'.path]_vars

(* ---------------------- MountManager::resolve ------------------------- *)
\* the count of followed links is kept up to this number
MaxHops == NumNames + NumHashes + 2

\* a resolve that is between two turns of its loop: the path it looks up
\* next and the lowerdir links it has followed
ResolveCall(path, hops) == [dir |-> "resolve", idx |-> hops, path |-> path]

\* what can be mounted on mountpoint/n: nothing, a bind mount of a base, an
\* overlay over a base or over a named mount (its own mountpoint among
\* them), an overlay whose options name no lowerdir, a foreign filesystem
LinkStarts ==
    {[kind |-> "none", lower |-> NoPath], [kind |-> "bind", lower |-> NoPath],
     [kind |-> "other", lower |-> NoPath], [kind |-> "overlay", lower |-> NoPath]}
        \cup {[kind |-> "overlay", lower |-> RoDir(h)] : h \in Hashes}
        \cup {[kind |-> "overlay", lower |-> NamePath(n)] : n \in Names}

RECURSIVE LinkLines(_, _, _)
LinkLines(bases, named, n) ==
    IF n = 0 THEN BaseLines(bases, NumHashes)
    ELSE LET t == LinkLines(bases, named, n - 1)
         IN IF named[n].kind = "bind" THEN Append(t, Mount(1, NamePath(n), G8UFS, NoPath))
            ELSE IF named[n].kind = "overlay"
            THEN Append(t, Mount(0, NamePath(n), OVERLAY, named[n].lower))
            ELSE IF named[n].kind = "other"
            THEN Append(t, Mount(0, NamePath(n), "btrfs", NoPath))
            ELSE t

InitResolve ==
    /\ build = "release"
    /\ devtype = [d \in Devices |-> "SSD"]
    /\ devsize = [d \in Devices |-> DeviceSize(d)]
    /\ mounted = [d \in Devices |-> FALSE]
    /\ vols = [d \in Devices |-> NoVols]
    /\ disks = [d \in Devices |-> NoDisks]
    /\ cursor = 1
    /\ ssds = <<>>
    /\ hdds = <<>>
    /\ ssd_size = 0
    /\ hdd_size = 0
    /\ allocated = {}
    /\ inflight = NoCall
    /\ HostIdle
    /\ \E bases \in SUBSET Hashes, named \in [Names -> LinkStarts] :
          table = LinkLines(bases, named, NumNames)
    /\ dirs = Targets(table) \ {PoolMount.target}
    /\ cache = <<>>
    /\ alive = {table[i].source : i \in RoMounts(table)}
    /\ last = NoFlistCall

\* resolve(path) up to its loop
ResolveStart ==
    \E path \in {NamePath(n) : n \in Names} \cup {RoDir(h) : h \in Hashes} :
        /\ inflight = NoCall
        /\ inflight' = ResolveCall(path, 0)
        /\ last' = FlistCall("start", 0, "none", path, {}, FALSE)
        /\ UNCHANGED <<build, devtype, devsize, mounted, vols, disks, cursor, ssds, hdds,
                       totals, allocated, host, flist>>

\* one turn of the loop of MountManager::resolve over a table that can be
\* read: the first line with the path as its target decides.  The record
\* of a followed link tells an odd turn from an even one
ResolveTurn ==
    LET path == inflight.path
        mnt == table[Min(MountsAt(table, path))]
        return(res, pid) ==
            /\ inflight' = NoCall
            /\ last' = FlistCall("resolve", pid, res, path, {}, FALSE)
    IN /\ inflight.dir = "resolve"
       /\ IF MountsAt(table, path) = {} THEN return("error", 0)
          ELSE IF mnt.filesystem = G8UFS
          THEN IF ParsePid(mnt.source).ok THEN return("ok", mnt.source)
               ELSE return("error", 0)
          ELSE IF mnt.filesystem = OVERLAY
          THEN IF mnt.lower # NoPath
               THEN /\ inflight' = ResolveCall(mnt.lower, Min({inflight.idx + 1, MaxHops}))
                    /\ last' = FlistCall("lowerdir", IF last.op = "lowerdir" THEN 1 - last.name ELSE 0,
                                         "none", mnt.lower, {}, FALSE)
               ELSE return("error", 0)
          ELSE return("error", 0)
       /\ UNCHANGED <<build, devtype, devsize, mounted, vols, disks, cursor, ssds, hdds,
                      totals, allocated, host, flist>>

\* a turn of the loop in which /proc/mounts cannot be read
ResolveFails ==
    /\ inflight.dir = "resolve"
    /\ inflight' = NoCall
    /\ last' = FlistCall("resolve", 0, "error", inflight.path, {}, TRUE)
    /\ UNCHANGED <<build, devtype, devsize, mounted, vols, disks, cursor, ssds, hdds,
                   totals, allocated, host, flist>>

NextResolve ==
    \/ ResolveStart
    \/ ResolveTurn
    \/ ResolveFails

\* the future of resolve is polled until it returns
SpecResolve == InitResolve /\ [][NextResolve]_vars /\ WF_vars(ResolveTurn)

\* C38: a resolve that has started returns, and it follows no more
\* lowerdir links than the table has mounts
C38_ResolveTerminates ==
    /\ (inflight.dir = "resolve") ~> (inflight = NoCall)
    /\ [](inflight.dir = "resolve" => inflight.idx <= Len(table))

(* ---------------------- zinit: stop_wait ------------------------------ *)
\* the longest timeout that is asked for, in seconds
MaxTimeout == 4

PossibleStates ==
    {"ServiceStateUnknown", "ServiceStateRunning", "ServiceStateBlocked",
     "ServiceStateSpawned", "ServiceStateSuccess", "ServiceStateError",
     "ServiceStateFailure"}
ServiceTargets == {"Up", "Down"}

\* ServiceState::exited
Exited(state) ==
    state \in {"ServiceStateBlocked", "ServiceStateSuccess", "ServiceStateFailure",
               "ServiceStateError"}

\* what a status call gives: a ServiceStatus, or the error of the command
Reports ==
    {[ok |-> TRUE, state |-> s, target |-> t] : s \in PossibleStates, t \in ServiceTargets}
        \cup {[ok |-> FALSE, state |-> "ServiceStateUnknown", target |-> "Down"]}
NoReport == [ok |-> TRUE, state |-> "ServiceStateUnknown", target |-> "Down"]

\* a stop_wait between two ticks of its interval: the ticks that have
\* passed and the timeout, in seconds
StopCall(ticks, timeout) == [dir |-> "stop_wait", idx |-> ticks, timeout |-> timeout]

StopReturn(op, timeout, ticks, report, res) ==
    [op |-> op, timeout |-> timeout, ticks |-> ticks, report |-> report, res |-> res]

\* one turn of the loop of stop_wait on a report of status: the value the
\* loop returns, "none" when it goes to the next tick
StopWaitTurn(report) ==
    IF ~report.ok THEN "error"
    ELSE IF Exited(report.state) THEN "StartingService"
    ELSE IF report.target = "Up" THEN "ServiceTargetIsNotDown"
    ELSE "none"

\* Client::stop_wait up to the loop: the stop command, and the return for
\* a timeout of zero
StopWaitStart ==
    \E timeout \in 0 .. MaxTimeout, stopped \in BOOLEAN :
        /\ inflight = NoCall
        /\ inflight' = IF stopped /\ timeout > 0 THEN StopCall(0, timeout) ELSE NoCall
        /\ last' = IF ~stopped THEN StopReturn("stop_wait", timeout, 0, NoReport, "error")
                   ELSE IF timeout = 0 THEN StopReturn("stop_wait", timeout, 0, NoReport, "ok")
                   ELSE StopReturn("stop", timeout, 0, NoReport, "none")
        /\ UNCHANGED <<build, devtype, devsize, mounted, vols, disks, cursor, ssds, hdds,
                       totals, allocated, host, flist>>

\* a tick of the interval before the timeout: status is asked and the loop
\* returns or waits for the next tick
StopWaitPoll ==
    \E report \in Reports :
        LET r == StopWaitTurn(report)
        IN /\ inflight.dir = "stop_wait"
           /\ inflight.idx < inflight.timeout
           /\ inflight' = IF r = "none" THEN StopCall(inflight.idx + 1, inflight.timeout)
                          ELSE NoCall
           /\ last' = StopReturn(IF r = "none" THEN "poll" ELSE "stop_wait",
                                 inflight.timeout, inflight.idx + 1, report, r)
           /\ UNCHANGED <<build, devtype, devsize, mounted, vols, disks, cursor, ssds, hdds,
                          totals, allocated, host, flist>>

\* the timeout expires
StopWaitTimeout ==
    /\ inflight.dir = "stop_wait"
    /\ inflight.idx = inflight.timeout
    /\ inflight' = NoCall
    /\ last' = StopReturn("stop_wait", inflight.timeout, inflight.idx, NoReport,
                          "ServiceNotStoppedInTime")
    /\ UNCHANGED <<build, devtype, devsize, mounted, vols, disks, cursor, ssds, hdds,
                   totals, allocated, host, flist>>

InitStop ==
    /\ build = "release"
    /\ devtype = [d \in Devices |-> "SSD"]
    /\ devsize = [d \in Devices |-> DeviceSize(d)]
    /\ mounted = [d \in Devices |-> FALSE]
    /\ vols = [d \in Devices |-> NoVols]
    /\ disks = [d \in Devices |-> NoDisks]
    /\ cursor = 1
    /\ ssds = <<>>
    /\ hdds = <<>>
    /\ ssd_size = 0
    /\ hdd_size = 0
    /\ allocated = {}
    /\ inflight = NoCall
    /\ HostIdle
    /\ table = <<>>
    /\ dirs = {}
    /\ cache = <<>>
    /\ alive = {}
    /\ last = StopReturn("boot", 0, 0, NoReport, "none")

NextStop ==
    \/ StopWaitStart
    \/ StopWaitPoll
    \/ StopWaitTimeout

\* the timer and the interval of the call fire
SpecStop ==
    InitStop /\ [][NextStop]_vars /\ WF_vars(StopWaitPoll) /\ WF_vars(StopWaitTimeout)

\* C39: a stop_wait with a timeout that is not zero returns: Ok at the
\* first poll before the timeout that reports the service exited, and an
\* error only when the target is seen Up, a status call fails or the
\* timeout expires
C39_StopWaitReturnsOkOnExit ==
    /\ (inflight.dir = "stop_wait") ~> (inflight = NoCall)
    /\ [][(inflight.dir = "stop_wait" /\ last'.op \in {"poll", "stop_wait"}) =>
             /\ (last'.report.ok /\ Exited(last'.report.state)) =>
                   last'.op = "stop_wait" /\ last'.res = "ok"
             /\ (last'.op = "stop_wait" /\ last'.res # "ok") =>
                   \/ ~last'.report.ok
                   \/ last'.report.target = "Up"
                   \/ last'.res = "ServiceNotStoppedInTime"]_vars

====
